---- MODULE Spec2Model ----
(***************************************************************************)
(* The MCP relay of the spam-checker service: the lookup client, the       *)
(* method dispatch and the request/response transports, in the variants    *)
(* the repository holds side by side:                                      *)
(*   "table"  - src/unnamed/part_000 (handlers table, /sse and /mcp)       *)
(*   "stream" - src/unnamed/part_001 (handleMCPMessage)                    *)
(*   "worker" - src/src/worker.js    (switch over the method, /mcp)        *)
(*   "hono"   - src/src/index.ts     (Hono app, /mcp)                      *)
(*   "sdk"    - src/src/worker-twilio-sdk.js (worker.js over the SDK)      *)
(*                                                                         *)
(* A JavaScript string is a sequence of tokens: every character of text    *)
(* that comes from the caller or is computed is a token of its own, and a  *)
(* string literal of the source is one token.  A JavaScript value is a     *)
(* record tagged by its type in field t.                                   *)
(***************************************************************************)
EXTENDS Integers, Sequences, FiniteSets, TLC

\* Longest run of digits in a query the model enumerates.
MaxDigits == 16

----------------------------------------------------------------------------
(* Characters and numbers as text *)

DigitChars == <<"0", "1", "2", "3", "4", "5", "6", "7", "8", "9">>

HexChars ==
  <<"0", "1", "2", "3", "4", "5", "6", "7", "8", "9", "a", "b", "c", "d", "e", "f">>

IsDigit(c) == \E i \in 1..10 : DigitChars[i] = c

\* String.prototype.charCodeAt for the characters of the model's alphabet
\* ("U+0663" stands for the one character ARABIC-INDIC DIGIT THREE).
charCodeAt(c) ==
  CASE c = "+" -> 43
    [] c = " " -> 32
    [] c = "e" -> 101
    [] c = "h" -> 104
    [] c = "l" -> 108
    [] c = "o" -> 111
    [] c = "\n" -> 10
    [] c = "G" -> 71
    [] c = "Z" -> 90
    [] c = "_" -> 95
    [] c = "d" -> 100
    [] c = "y" -> 121
    [] c = "U+0663" -> 1635
    [] OTHER -> 47 + (CHOOSE i \in 1..10 : DigitChars[i] = c)

\* Number.prototype.toString(10) of a non-negative integer, as template
\* literals render a status or a score.
RECURSIVE NumStr(_)
NumStr(n) ==
  IF n < 10 THEN <<DigitChars[n + 1]>>
  ELSE NumStr(n \div 10) \o <<DigitChars[(n % 10) + 1]>>

----------------------------------------------------------------------------
(* Identity and masking utilities *)

Stars(n) == [i \in 1..n |-> "*"]

\* phone.slice(-4)
Last4(phone) ==
  IF Len(phone) <= 4 THEN phone ELSE SubSeq(phone, Len(phone) - 3, Len(phone))

maskPhoneNumber_Unguarded(phone) == Stars(Len(phone) - 4) \o Last4(phone)

maskPhoneNumber(phone) ==
  IF Len(phone) < 4 THEN Stars(Len(phone))
  ELSE Stars(Len(phone) - 4) \o Last4(phone)

isE164_NoEnd(number) ==
  /\ Len(number) >= 11
  /\ number[1] = "+"
  /\ \A i \in 2..11 : IsDigit(number[i])

\* number.startsWith('+') && /^\+\d{10,15}$/.test(number)
isE164(number) ==
  /\ Len(number) >= 1
  /\ number[1] = "+"
  /\ Len(number) - 1 >= 10
  /\ Len(number) - 1 <= 15
  /\ \A i \in 2..Len(number) : IsDigit(number[i])

(* A 32-bit integer is kept as two 16-bit halves, hi * 65536 + lo, in two's *)
(* complement: the value is negative when hi >= 32768.                      *)
Int32(hi, lo) == [hi |-> hi % 65536, lo |-> lo % 65536]

\* hash << 5
Shl5(h) == Int32(h.hi * 32 + (h.lo * 32) \div 65536, h.lo * 32)

\* ToInt32(a - b)
Sub32(a, b) ==
  Int32(a.hi - b.hi - (IF a.lo < b.lo THEN 1 ELSE 0), a.lo - b.lo)

\* ToInt32(a + n) for a small non-negative n (a character code)
AddCode32(a, n) == Int32(a.hi + (a.lo + n) \div 65536, a.lo + n)

HashStep_Times33(hash, char) ==
  AddCode32(Int32(Shl5(hash).hi + hash.hi + (Shl5(hash).lo + hash.lo) \div 65536,
                  Shl5(hash).lo + hash.lo), char)

\* hash = ((hash << 5) - hash) + char; hash = hash & hash
HashStep(hash, char) == AddCode32(Sub32(Shl5(hash), hash), char)

\* The loop of createDocumentId from its i-th iteration on: st is <<i, hash>>
RECURSIVE HashLoop(_, _)
HashLoop(phone, st) ==
  IF st[1] > Len(phone) THEN st[2]
  ELSE HashLoop(phone, <<st[1] + 1, HashStep(st[2], charCodeAt(phone[st[1]]))>>)

\* Math.abs(hash): the magnitude, as an unsigned 32-bit quantity
Abs32(h) ==
  IF h.hi < 32768 THEN h
  ELSE Int32(65535 - h.hi + (IF h.lo = 0 THEN 1 ELSE 0), 65536 - h.lo)

\* The hexadecimal digits of n, least significant last, without leading zeros
RECURSIVE HexStr(_)
HexStr(n) ==
  IF n < 16 THEN <<HexChars[n + 1]>>
  ELSE HexStr(n \div 16) \o <<HexChars[(n % 16) + 1]>>

\* The last four hexadecimal digits of n, zero-padded
Hex4(n) ==
  <<HexChars[((n \div 4096) % 16) + 1], HexChars[((n \div 256) % 16) + 1],
    HexChars[((n \div 16) % 16) + 1], HexChars[(n % 16) + 1]>>

ToHex_Padded(h) == Hex4(h.hi) \o Hex4(h.lo)

\* Number.prototype.toString(16) of a non-negative 32-bit magnitude
ToHex(h) == IF h.hi = 0 THEN HexStr(h.lo) ELSE HexStr(h.hi) \o Hex4(h.lo)

\* s.slice(0, 8)
Slice8(s) == SubSeq(s, 1, IF Len(s) < 8 THEN Len(s) ELSE 8)

\* `spam_check_${Math.abs(hash).toString(16).slice(0, 8)}`
hashId(hash) == <<"spam_check_">> \o Slice8(ToHex(Abs32(hash)))

createDocumentId(phone) == hashId(HashLoop(phone, <<1, Int32(0, 0)>>))

----------------------------------------------------------------------------
(* JavaScript values *)

Undefined == [t |-> "undefined"]
Null == [t |-> "null"]
Str(s) == [t |-> "string", s |-> s]
Num(n) == [t |-> "number", n |-> n]
Bool(b) == [t |-> "boolean", b |-> b]

\* ToBoolean, as `if (!query)` and `if (!id)` apply it
Truthy(v) ==
  CASE v.t \in {"undefined", "null"} -> FALSE
    [] v.t = "boolean" -> v.b
    [] v.t = "string" -> Len(v.s) > 0
    [] v.t = "number" -> v.n # 0
    [] OTHER -> TRUE

\* undefined and null: reading a member of one, or destructuring one, throws
Nullish(v) == v.t \in {"undefined", "null"}

\* `const { name, arguments: args } = params`, `params.name`: a primitive
\* (string, number, boolean) has neither member
NameOf(params) == IF params.t = "object" THEN params.name ELSE "undefined"
ArgsOf(params) == IF params.t = "object" THEN params.arguments ELSE Undefined

\* args?.query, args?.id: undefined when args is undefined, null or a
\* primitive
OptQuery(args) == IF args.t = "object" THEN args.query ELSE Undefined
OptId(args) == IF args.t = "object" THEN args.id ELSE Undefined

\* The white space and line terminators String.prototype.trim strips; a
\* character without an escape is written by its code point.
WhiteSpace ==
  {" ", "\t", "\n", "\r", "\f", "U+000B", "U+00A0", "U+FEFF", "U+2028", "U+2029",
   "U+1680", "U+2000", "U+2001", "U+2002", "U+2003", "U+2004", "U+2005",
   "U+2006", "U+2007", "U+2008", "U+2009", "U+200A", "U+202F", "U+205F",
   "U+3000"}

IsSpace(c) == c \in WhiteSpace

\* String.prototype.trim
RECURSIVE trim(_)
trim(s) ==
  IF Len(s) = 0 THEN s
  ELSE IF IsSpace(s[1]) THEN trim(Tail(s))
  ELSE IF IsSpace(s[Len(s)]) THEN trim(SubSeq(s, 1, Len(s) - 1))
  ELSE s

\* query.startsWith('+')
StartsWithPlus(s) == Len(s) >= 1 /\ s[1] = "+"

\* /^\d{10,}$/.test(query)
IsDigitRun10(s) == Len(s) >= 10 /\ \A i \in 1..Len(s) : IsDigit(s[i])

\* What a step of a handler ends in: a returned value, a thrown error, or a
\* suspension on the outbound call for a number.
Return(v) == [k |-> "return", value |-> v]
Throw(m) == [k |-> "throw", message |-> m]
Await(phone, query) == [k |-> "await", phone |-> phone, query |-> query]

\* The message of the TypeError the engine raises on a property access or a
\* call that cannot be made; its wording is the engine's.
TypeErrorMessage == <<"TypeError">>

----------------------------------------------------------------------------
(* Lookup client *)

\* response.ok
IsOk(status) == status >= 200 /\ status <= 299

\* The value of a member that holds an object
Obj(fields) == [t |-> "object"] @@ fields

\* The upstream replies the model draws from: the call fails outright, or an
\* HTTP response arrives whose body is not JSON, or is a JSON object.  The
\* object nests the score as add_ons.results.nomorobo_spamscore.result.score;
\* each level of the nesting may be absent, and the score or the add-ons
\* may be null.  A block states its status ("undefined" when it has none);
\* one whose status is not "successful" may carry a score all the same.  The
\* body may also be the JSON text null.
Statuses == {200, 401, 404, 429, 500}
Scores == {Undefined, Null, Num(0), Num(1), Num(2)}

ResultVals == {Undefined} \cup {Obj([score |-> sc]) : sc \in Scores}

BlockVals ==
  {Undefined}
  \cup {Obj([status |-> "successful", result |-> r]) : r \in ResultVals}
  \cup {Obj([status |-> s, result |-> r]) :
          s \in {"failed", "undefined"},
          r \in {Undefined, Obj([score |-> Num(1)])}}

AddOnsVals ==
  {Undefined, Null, Obj([results |-> Undefined])}
  \cup {Obj([results |-> Obj([nomorobo_spamscore |-> b])]) : b \in BlockVals}

Names == {Undefined, Str(<<"Acme Mobile">>)}
Types == {Undefined, Str(<<"mobile">>)}
Countries == {Undefined, Str(<<"US">>)}

CarrierVals ==
  {Undefined} \cup {Obj([name |-> n, type |-> ty]) : n \in Names, ty \in Types}

\* Every combination of presence and absence of the members checkSpamScore
\* reads
LookupBodies ==
  {Obj([add_ons |-> a, carrier |-> c, country_code |-> co, type |-> ty]) :
     a \in AddOnsVals, c \in CarrierVals, co \in Countries, ty \in Types}

\* The bodies an exchange draws from: the descriptive members all present or
\* all absent
Described(body) ==
  \/ /\ body.carrier.t = "undefined"
     /\ body.country_code.t = "undefined"
     /\ body.type.t = "undefined"
  \/ /\ body.carrier.t = "object"
     /\ body.carrier.name.t = "string"
     /\ body.carrier.type.t = "string"
     /\ body.country_code.t = "string"
     /\ body.type.t = "string"

Replies ==
  {[t |-> "rejected"]}
  \cup {[t |-> "http", status |-> st, body |-> [t |-> "invalid"]] : st \in Statuses}
  \cup {[t |-> "http", status |-> 200, body |-> b] :
          b \in {x \in LookupBodies : Described(x)}}
  \cup {[t |-> "http", status |-> 200, body |-> Null]}

NoReply == [t |-> "none"]

\* checkSpamScore without its format check: the call is made for any number.
checkSpamScoreGate_Skipped(phoneNumber) == TRUE

\* The part of checkSpamScore before the outbound call: the format gate.
\* TRUE when the call is made.
checkSpamScoreGate(phoneNumber) == isE164(phoneNumber)

InvalidFormatMessage(phoneNumber) ==
  <<"Invalid phone number format: ">> \o phoneNumber

UpstreamErrorMessage(status) == <<"Twilio API error: ">> \o NumStr(status)

\* The status checks between the call and the body parse.  The worker and
\* the Hono app tell 404, 401 and 429 apart, and so does the catch block of
\* the SDK variant, which throws the SDK's own error on again for any other
\* status; part_000 and part_001 have the single `!response.ok` check.
StatusError(variant, phoneNumber, status) ==
  IF variant \in {"worker", "hono", "sdk"} /\ status = 404
    THEN Throw(<<"Phone number not found: ">> \o phoneNumber)
  ELSE IF variant \in {"worker", "hono", "sdk"} /\ status = 401
    THEN Throw(<<"Twilio authentication failed">>)
  ELSE IF variant \in {"worker", "hono", "sdk"} /\ status = 429
    THEN Throw(<<"Twilio rate limit exceeded">>)
  ELSE IF ~IsOk(status)
    THEN (IF variant = "sdk" THEN Throw(<<"<RestException.message>">>)
          ELSE Throw(UpstreamErrorMessage(status)))
  ELSE Return(Undefined)

\* What a member read on undefined or null raises instead of a value
Thrown == [t |-> "thrown"]

\* v?.member, and (v || {}).member: undefined for a v that is undefined,
\* null or has no such member
Member(v, name) == IF v.t = "object" THEN v[name] ELSE Undefined

\* data.add_ons?.results?.nomorobo_spamscore (part_000, part_001);
\* ((data.add_ons || {}).results || {}).nomorobo_spamscore || {} (worker.js,
\* index.ts); phoneNumberLookup.addOns?.results?.[env.NOMOROBO_ADDON_SID]
\* of the SDK variant.  The first read, data.add_ons, has no `?.`: on a body
\* that is null it throws.
BlockOf(body) ==
  IF Nullish(body) THEN Thrown
  ELSE Member(Member(Member(body, "add_ons"), "results"), "nomorobo_spamscore")

\* nomoroboResult?.result?.score ?? 0, of a body whose block was read: 0 for
\* a score that is undefined or null
ScoreOf(body) ==
  IF Nullish(Member(Member(BlockOf(body), "result"), "score")) THEN Num(0)
  ELSE Member(Member(BlockOf(body), "result"), "score")

\* score === 1 ? 'SPAM' : 'CLEAN'
Reputation(score) == IF score = Num(1) THEN "SPAM" ELSE "CLEAN"

\* v || 'Unknown'
OrUnknown(v) == IF Truthy(v) THEN v.s ELSE <<"Unknown">>

\* data.carrier?.name || 'Unknown'
CarrierOf(body) == OrUnknown(Member(Member(body, "carrier"), "name"))

\* data.type || 'Unknown'; the SDK variant reads carrier?.type
PhoneTypeOf(variant, body) ==
  IF variant = "sdk" THEN OrUnknown(Member(Member(body, "carrier"), "type"))
  ELSE OrUnknown(Member(body, "type"))

\* data.country_code || 'Unknown'
CountryOf(body) == OrUnknown(Member(body, "country_code"))

\* The object checkSpamScore returns; part_000 and part_001 return no
\* descriptive members.
SpamCheckResult(variant, phoneNumber, body) ==
  IF variant \in {"worker", "hono", "sdk"}
    THEN [id |-> createDocumentId(phoneNumber),
          phone_number_masked |-> maskPhoneNumber(phoneNumber),
          spam_score |-> ScoreOf(body),
          reputation |-> Reputation(ScoreOf(body)),
          carrier |-> CarrierOf(body),
          country_code |-> CountryOf(body),
          phone_type |-> PhoneTypeOf(variant, body)]
  ELSE [id |-> createDocumentId(phoneNumber),
        phone_number_masked |-> maskPhoneNumber(phoneNumber),
        spam_score |-> ScoreOf(body),
        reputation |-> Reputation(ScoreOf(body))]

\* `if (!nomoroboResult || nomoroboResult.status !== 'successful')` of the
\* SDK variant: TRUE when it throws
AddOnMissing(body) ==
  \/ ~Truthy(BlockOf(body))
  \/ BlockOf(body).status # "successful"

\* The body of a reply whose status line has arrived
Pending == [t |-> "pending"]

\* The reply as `await fetch(...)` hands it over: the body is still to come
HeadOf(reply) == [reply EXCEPT !.body = Pending]

\* After `await fetch(...)` checkSpamScore neither throws nor returns but
\* suspends again, on `await response.json()`: the call resolved and the
\* status passed the checks.  The SDK's fetch is the one await of
\* worker-twilio-sdk.js: it resolves with the parsed body or rejects.
AwaitsJson(variant, phoneNumber, reply) ==
  /\ variant # "sdk"
  /\ reply.t = "http"
  /\ StatusError(variant, phoneNumber, reply.status).k = "return"

\* The part of checkSpamScore after the outbound call, for a number that
\* passed the gate: what it returns or throws on the upstream's reply.  Of a
\* body that is null the first member read (data.add_ons) throws.
checkSpamScoreReply(variant, phoneNumber, reply) ==
  IF reply.t = "rejected" THEN Throw(<<"fetch failed">>)
  ELSE IF StatusError(variant, phoneNumber, reply.status).k = "throw"
    THEN StatusError(variant, phoneNumber, reply.status)
  ELSE IF reply.body.t = "invalid" THEN Throw(<<"Unexpected token">>)
  ELSE IF BlockOf(reply.body) = Thrown THEN Throw(TypeErrorMessage)
  ELSE IF variant = "sdk" /\ AddOnMissing(reply.body)
    THEN Throw(<<"Failed to retrieve spam score from Nomorobo">>)
  ELSE Return(SpamCheckResult(variant, phoneNumber, reply.body))

----------------------------------------------------------------------------
(* Protocol envelopes *)

\* A member that is undefined is left out by JSON.stringify: an envelope whose
\* id is "undefined" is serialised without an id member.
ResultEnvelope(id, result) ==
  [shape |-> "envelope", jsonrpc |-> "2.0", id |-> id,
   result |-> result, error |-> Undefined]

ErrorEnvelope(id, code, message) ==
  [shape |-> "envelope", jsonrpc |-> "2.0", id |-> id,
   result |-> Undefined,
   error |-> [t |-> "object", code |-> code, message |-> message]]

\* A response payload that is no envelope: the JSON text of some other value.
ValuePayload(v) == [shape |-> "value", value |-> v]

\* { results: [...] }; wrapped when it travels as the JSON text of
\* result.content[0].text
Results(wrapped, items) ==
  [t |-> "object", kind |-> "results", wrapped |-> wrapped, items |-> items]

\* Date.now(), rendered in a template literal: the clock's reading, one token
NowText == <<"<Date.now()>">>

ReportUrl(id) == <<"https://spam-checker.example.com/report/">> \o id

\* `${spamResult.spam_score}`
ScoreText(score) == NumStr(score.n)

\* The one result item of a successful search.
SearchItem(variant, r) ==
  [id |-> r.id,
   title |-> <<"Spam Check: ">> \o r.phone_number_masked,
   text |-> <<"Phone: ">> \o r.phone_number_masked
            \o <<", Score: ">> \o ScoreText(r.spam_score)
            \o <<", Reputation: ", r.reputation>>
            \o (IF variant \in {"worker", "hono", "sdk"}
                  THEN <<", Carrier: ">> \o r.carrier ELSE <<>>),
   url |-> ReportUrl(r.id)]

\* The synthetic item built in the catch block around the lookup.  query is
\* the query as the handler holds it; message is error.message.
ErrorItem(variant, query, message) ==
  [id |-> <<"error_">> \o NowText,
   title |-> IF variant \in {"worker", "hono", "sdk"}
               THEN <<"Error checking ">> \o maskPhoneNumber(query)
               ELSE <<"Error checking number">>,
   text |-> IF variant = "stream" THEN message
            ELSE <<"Could not check spam status: ">> \o message,
   url |-> <<"https://spam-checker.example.com/error">>]

\* part_000 returns result.results; the others wrap the list in
\* result.content[0].text
Wraps(variant) == variant # "table"

SearchSuccess(variant, id, r) ==
  ResultEnvelope(id, Results(Wraps(variant), <<SearchItem(variant, r)>>))

SearchFailure(variant, id, query, message) ==
  ResultEnvelope(id, Results(Wraps(variant), <<ErrorItem(variant, query, message)>>))

EmptyResults(variant, id) == ResultEnvelope(id, Results(Wraps(variant), <<>>))

\* StartLookup with the format check made outside the try block: its error
\* reaches the transport's catch block.
StartLookup_Uncaught(variant, id, query, phoneNumber) ==
  IF checkSpamScoreGate(phoneNumber) THEN Await(phoneNumber, query)
  ELSE Throw(InvalidFormatMessage(phoneNumber))

\* try { await checkSpamScore(phoneNumber) ... } catch: the part before the
\* call.  A number that fails the gate is answered at once.
StartLookup(variant, id, query, phoneNumber) ==
  IF checkSpamScoreGate(phoneNumber) THEN Await(phoneNumber, query)
  ELSE Return(SearchFailure(variant, id, query, InvalidFormatMessage(phoneNumber)))

\* The same try/catch, after the call: the search's response on a reply.
FinishLookup(variant, id, query, phoneNumber, reply) ==
  IF checkSpamScoreReply(variant, phoneNumber, reply).k = "return"
    THEN SearchSuccess(variant, id,
                       checkSpamScoreReply(variant, phoneNumber, reply).value)
  ELSE SearchFailure(variant, id, query,
                     checkSpamScoreReply(variant, phoneNumber, reply).message)

InitializeResult == [t |-> "object", kind |-> "initialize"]
ToolsListResult == [t |-> "object", kind |-> "tools", names |-> <<"search", "fetch">>]

\* The fetch answered with a result list, as if the id had been resolved.
Document_Resolved(wrapped, id) == Results(wrapped, <<>>)

Document(wrapped, id) ==
  [t |-> "object", kind |-> "document", wrapped |-> wrapped, id |-> id]

----------------------------------------------------------------------------
(* Method dispatch: part_000, the handlers table *)

\* handlers['tools/call'](params, id, env)
EnsureE164_BarePlus(query) ==
  IF StartsWithPlus(query) THEN query ELSE <<"+">> \o query

\* const phoneNumber = query.startsWith('+') ? query : '+1' + query
EnsureE164(query) ==
  IF StartsWithPlus(query) THEN query ELSE <<"+", "1">> \o query

tableToolsCall(params, id) ==
  IF Nullish(params) THEN Throw(TypeErrorMessage)
  ELSE IF NameOf(params) = "search" THEN
    IF ~Truthy(OptQuery(ArgsOf(params))) THEN Return(EmptyResults("table", id))
    ELSE IF OptQuery(ArgsOf(params)).t # "string" THEN Throw(TypeErrorMessage)
    ELSE IF \/ StartsWithPlus(OptQuery(ArgsOf(params)).s)
            \/ IsDigitRun10(OptQuery(ArgsOf(params)).s)
      THEN StartLookup("table", id, OptQuery(ArgsOf(params)).s,
                       EnsureE164(OptQuery(ArgsOf(params)).s))
    ELSE Return(EmptyResults("table", id))
  ELSE IF NameOf(params) = "fetch" THEN
    IF ~Truthy(OptId(ArgsOf(params)))
      THEN Return(ErrorEnvelope(id, -32602, <<"Document ID is required">>))
    ELSE Return(ResultEnvelope(id, Document(FALSE, OptId(ArgsOf(params)))))
  ELSE Return(ErrorEnvelope(id, -32601, <<"Unknown tool: ", NameOf(params)>>))

\* The keys the handlers object defines itself
TableKeys == {"initialize", "tools/list", "tools/call"}

\* `if (handlers[method])`: the lookup also finds what a plain object
\* inherits from Object.prototype
ObjectPrototypeKeys ==
  {"constructor", "toString", "toLocaleString", "valueOf", "hasOwnProperty",
   "isPrototypeOf", "propertyIsEnumerable", "__defineGetter__",
   "__defineSetter__", "__lookupGetter__", "__lookupSetter__", "__proto__"}

TableHas(method) == method \in TableKeys \cup ObjectPrototypeKeys

\* An object JSON.stringify writes as {}
EmptyObject == [t |-> "object", name |-> "undefined", arguments |-> Undefined]

\* handlers.hasOwnProperty(params): params, as a property key, is one of the
\* keys of the table
IsOwnKey(params) ==
  params.t = "string" /\ \E key \in TableKeys : params.s = <<key>>

\* Object(params): params itself, or a fresh empty object when it is
\* undefined or null
ObjectOf(params) == IF Nullish(params) THEN EmptyObject ELSE params

\* `if (handlers[method]) response = await handlers[method](params, id, env)
\*  else response = { ... -32601 ... }`.  An inherited function is called
\* with the handlers object as this and (params, id, env) as arguments, params
\* whatever the message carries: valueOf returns the handlers object, whose
\* members are functions and are left out of the JSON text; hasOwnProperty
\* and propertyIsEnumerable tell whether params names a key of the table;
\* isPrototypeOf returns false; __lookupGetter__ and __lookupSetter__ return
\* undefined; __defineGetter__ and __defineSetter__ throw on the id given as
\* the accessor; __proto__ is no function.
tableDispatch(method, params, id) ==
  IF ~TableHas(method)
    THEN Return(ErrorEnvelope(id, -32601, <<"Method not found: ", method>>))
  ELSE IF method = "initialize" THEN Return(ResultEnvelope(id, InitializeResult))
  ELSE IF method = "tools/list" THEN Return(ResultEnvelope(id, ToolsListResult))
  ELSE IF method = "tools/call" THEN tableToolsCall(params, id)
  ELSE IF method = "constructor" THEN Return(ValuePayload(ObjectOf(params)))
  ELSE IF method \in {"toString", "toLocaleString"}
    THEN Return(ValuePayload(Str(<<"[object Object]">>)))
  ELSE IF method = "valueOf" THEN Return(ValuePayload(EmptyObject))
  ELSE IF method \in {"hasOwnProperty", "propertyIsEnumerable"}
    THEN Return(ValuePayload(Bool(IsOwnKey(params))))
  ELSE IF method = "isPrototypeOf" THEN Return(ValuePayload(Bool(FALSE)))
  ELSE IF method \in {"__lookupGetter__", "__lookupSetter__"}
    THEN Return(ValuePayload(Undefined))
  ELSE Throw(TypeErrorMessage)

----------------------------------------------------------------------------
(* Method dispatch: part_001, handleMCPMessage *)

streamToolsCall(params, id) ==
  IF Nullish(params) THEN Throw(TypeErrorMessage)
  ELSE IF NameOf(params) = "search" THEN
    IF ~Truthy(OptQuery(ArgsOf(params))) THEN Return(EmptyResults("stream", id))
    ELSE IF OptQuery(ArgsOf(params)).t # "string"
      THEN Return(SearchFailure("stream", id, <<>>, TypeErrorMessage))
    ELSE StartLookup("stream", id, OptQuery(ArgsOf(params)).s,
                     OptQuery(ArgsOf(params)).s)
  ELSE IF NameOf(params) = "fetch"
    THEN Return(ResultEnvelope(id, Document(TRUE, OptId(ArgsOf(params)))))
  ELSE Return(ErrorEnvelope(id, -32601, <<"Unknown tool: ", NameOf(params)>>))

handleMCPMessage(method, params, id) ==
  IF method = "initialize" THEN Return(ResultEnvelope(id, InitializeResult))
  ELSE IF method = "tools/list" THEN Return(ResultEnvelope(id, ToolsListResult))
  ELSE IF method = "tools/call" THEN streamToolsCall(params, id)
  ELSE Return(ErrorEnvelope(id, -32601, <<"Unknown method: ", method>>))

----------------------------------------------------------------------------
(* Method dispatch: worker.js and index.ts, the switch over the method *)

\* `query.startsWith('+') && query.length > 5`
LooksLikePhone(query) == StartsWithPlus(query) /\ Len(query) > 5

\* `args.query?.trim()` throws when args is undefined or null, is undefined
\* when the query is, and throws on a query that has no trim method
handleToolCall(variant, params, id) ==
  IF Nullish(params) THEN Throw(TypeErrorMessage)
  ELSE IF NameOf(params) = "search" THEN
    IF Nullish(ArgsOf(params)) THEN Throw(TypeErrorMessage)
    ELSE IF Nullish(OptQuery(ArgsOf(params)))
      THEN Return(EmptyResults(variant, id))
    ELSE IF OptQuery(ArgsOf(params)).t # "string" THEN Throw(TypeErrorMessage)
    ELSE IF Len(trim(OptQuery(ArgsOf(params)).s)) = 0
      THEN Return(EmptyResults(variant, id))
    ELSE IF LooksLikePhone(trim(OptQuery(ArgsOf(params)).s))
      THEN StartLookup(variant, id, trim(OptQuery(ArgsOf(params)).s),
                       trim(OptQuery(ArgsOf(params)).s))
    ELSE Return(EmptyResults(variant, id))
  ELSE IF NameOf(params) = "fetch" THEN
    IF Nullish(ArgsOf(params)) THEN Throw(TypeErrorMessage)
    ELSE IF ~Truthy(OptId(ArgsOf(params)))
      THEN Return(ErrorEnvelope(id, -32602, <<"Document ID is required">>))
    ELSE Return(ResultEnvelope(id, Document(TRUE, Undefined)))
  ELSE Return(ErrorEnvelope(id, -32601, <<"Unknown tool: ", NameOf(params)>>))

switchDispatch(variant, method, params, id) ==
  IF method = "initialize" THEN Return(ResultEnvelope(id, InitializeResult))
  ELSE IF method = "tools/list" THEN Return(ResultEnvelope(id, ToolsListResult))
  ELSE IF method = "tools/call" THEN handleToolCall(variant, params, id)
  ELSE Return(ErrorEnvelope(id, -32601, <<"Unknown method: ", method>>))

----------------------------------------------------------------------------
(* Transports *)

SsePaths == {"/sse", "/sse/"}

\* The branch of the fetch handler (or the Hono route) that serves a request.
Route(variant, httpMethod, path) ==
  CASE variant = "table" ->
         IF httpMethod = "OPTIONS" THEN "options"
         ELSE IF path \in SsePaths
           THEN (IF httpMethod = "POST" THEN "sse-post" ELSE "stream")
         ELSE IF path = "/mcp" /\ httpMethod = "POST" THEN "mcp-post"
         ELSE IF path = "/health" THEN "health"
         ELSE "help"
    [] variant = "stream" ->
         IF httpMethod = "OPTIONS" THEN "options"
         ELSE IF path \in SsePaths THEN "stream"
         ELSE IF path = "/mcp" /\ httpMethod = "POST" THEN "mcp-post"
         ELSE IF path = "/health" THEN "health"
         ELSE "help"
    [] variant \in {"worker", "sdk"} ->
         IF httpMethod = "OPTIONS" THEN "options"
         ELSE IF path = "/health" THEN "health"
         ELSE IF path = "/mcp" /\ httpMethod = "POST" THEN "mcp-post"
         ELSE "help"
    [] variant = "hono" ->
         IF path = "/mcp" /\ httpMethod = "POST" THEN "mcp-post"
         ELSE IF path = "/health" /\ httpMethod = "GET" THEN "health"
         ELSE "unrouted"

ReadsBody(route) == route \in {"sse-post", "mcp-post"}

\* The corsHeaders object of a fetch handler.  index.ts sets no header of
\* its own: app.use('*', cors()) leaves them to the hono library.
corsHeaders(variant) ==
  CASE variant \in {"table", "stream"} ->
         {<<"Access-Control-Allow-Origin", "*">>,
          <<"Access-Control-Allow-Methods", "GET, POST, OPTIONS">>,
          <<"Access-Control-Allow-Headers", "Content-Type, Accept">>,
          <<"Access-Control-Allow-Credentials", "true">>}
    [] variant \in {"worker", "sdk"} ->
         {<<"Access-Control-Allow-Origin", "*">>,
          <<"Access-Control-Allow-Methods", "GET, POST, OPTIONS">>,
          <<"Access-Control-Allow-Headers", "Content-Type">>}
    [] OTHER -> {}

\* new Response(body, { status, headers }): the Content-Type header is the
\* framing, headers are the others but Cache-Control and Connection
Response(status, framing, payload, headers) ==
  [status |-> status, framing |-> framing, payload |-> payload,
   headers |-> headers]

NoResponse == Response(0, "none", [shape |-> "none"], {})

\* The responses of the branches that read no body; that of a streaming
\* branch is the response the stream is handed over in.
StaticResponse(variant, route) ==
  CASE route = "options" ->
         Response(200, "empty", [shape |-> "none"], corsHeaders(variant))
    [] route = "health" ->
         Response(200, "json", [shape |-> "health"], corsHeaders(variant))
    [] route = "help" ->
         Response(200, "text", [shape |-> "help"], corsHeaders(variant))
    [] route = "stream" ->
         Response(200, "sse", [shape |-> "stream"], corsHeaders(variant))

\* `const { method, params, id } = message` and `mcpRequest.method`: the
\* members of a parsed body.  A JSON scalar has none of them.
MessageOf(body) ==
  IF body.t = "object" THEN body
  ELSE [t |-> "object", method |-> "undefined", params |-> Undefined,
        id |-> "undefined"]

\* The handler's work from the parsed body up to its first suspension on the
\* outbound call, or to its end.
Dispatch(variant, body) ==
  IF body.t = "invalid" THEN Throw(<<"Unexpected token">>)
  ELSE IF body.t = "null" THEN Throw(TypeErrorMessage)
  ELSE
    CASE variant = "table" ->
           tableDispatch(MessageOf(body).method, MessageOf(body).params,
                         MessageOf(body).id)
      [] variant = "stream" ->
           handleMCPMessage(MessageOf(body).method, MessageOf(body).params,
                            MessageOf(body).id)
      [] OTHER ->
           switchDispatch(variant, MessageOf(body).method,
                          MessageOf(body).params, MessageOf(body).id)

\* The catch block of the POST /sse branch of part_000
SseCatch(message) ==
  Response(200, "sse", ErrorEnvelope("null", -32700, <<"Parse error: ">> \o message),
           corsHeaders("table"))

\* The catch block of the POST /mcp branch of part_000, part_001, worker.js
\* and worker-twilio-sdk.js
McpCatch_Bare(variant, message) ==
  Response(500, "json",
           ErrorEnvelope("null", -32603, <<"Internal error: ">> \o message), {})

McpCatch(variant, message) ==
  Response(500, "json",
           ErrorEnvelope("null", -32603, <<"Internal error: ">> \o message),
           corsHeaders(variant))

\* The catch block of app.post('/mcp') in index.ts; c.json answers 200
HonoCatch(id, message) ==
  Response(200, "json",
           ErrorEnvelope(id, -32603, <<"Internal error: ">> \o message),
           corsHeaders("hono"))

\* In index.ts the body is read outside the try block, and the catch block
\* reads request.id: an unparseable body and a null body both leave the
\* route handler with an error nothing in the repository catches.
HonoEscapes(body) == body.t \in {"invalid", "null"}

\* The response the transport sends for a handler that returned or threw.
Deliver(variant, route, body, outcome) ==
  IF outcome.k = "return"
    THEN Response(200, IF route = "sse-post" THEN "sse" ELSE "json", outcome.value,
                  corsHeaders(variant))
  ELSE IF route = "sse-post" THEN SseCatch(outcome.message)
  ELSE IF variant = "hono" THEN HonoCatch(MessageOf(body).id, outcome.message)
  ELSE McpCatch(variant, outcome.message)

----------------------------------------------------------------------------
(* The requests the model draws from *)

Variants == {"table", "stream", "worker", "hono", "sdk"}
HttpMethods == {"GET", "POST", "OPTIONS"}
Paths == {"/mcp", "/sse", "/sse/", "/health", "/"}

Methods ==
  {"initialize", "tools/list", "tools/call", "resources/list",
   "constructor", "toString", "__proto__", "valueOf", "hasOwnProperty",
   "__defineGetter__", "__lookupGetter__", "undefined"}

\* A request id, or "undefined" when the message has none
Ids == {"7", "abc", "undefined"}

ToolNames == {"search", "fetch", "delete", "undefined"}

\* 1234567890123...: n digits
DigitRun(n) == [i \in 1..n |-> DigitChars[(i % 10) + 1]]

QueryStrings ==
  {DigitRun(n) : n \in 0..MaxDigits}
  \cup {<<"+">> \o DigitRun(n) : n \in 0..MaxDigits}
  \cup {<<" ", "+">> \o DigitRun(n) \o <<" ">> : n \in 0..MaxDigits}
  \cup {<<"+", "1">> \o DigitRun(n) : n \in {10, 14}}
  \cup {<<"+">> \o DigitRun(11) \o <<"\n">>, <<"\n", "+">> \o DigitRun(11),
        <<"\t", "\n">>, <<"U+3000", "+">> \o DigitRun(11),
        <<"+">> \o DigitRun(11) \o <<"U+2003">>}
  \cup {<<"h", "e", "l", "l", "o">>}

QueryVals == {Undefined, Num(5), Bool(FALSE)} \cup {Str(q) : q \in QueryStrings}

\* The id a search for +12345678901 returns
KnownDocId == createDocumentId(<<"+">> \o DigitRun(11))

DocIdVals ==
  {Str(<<>>), Str(<<"spam_check_", "2", "b">>), Str(KnownDocId), Bool(FALSE)}

\* The ids of DocIdVals a search can return
IssuableIds == {d.s : d \in {e \in DocIdVals : e.t = "string"}}

ArgsVals ==
  {Undefined, Str(<<"search">>)}
  \cup {[t |-> "object", query |-> q, id |-> Undefined] : q \in QueryVals}
  \cup {[t |-> "object", query |-> Undefined, id |-> d] : d \in DocIdVals}

ParamsVals ==
  {Undefined, Null, Str(<<"search">>), Str(<<"initialize">>)}
  \cup {[t |-> "object", name |-> n, arguments |-> a] :
          n \in ToolNames, a \in ArgsVals}

NoBody == [t |-> "none"]

Bodies ==
  {[t |-> "invalid"], [t |-> "null"], [t |-> "scalar"]}
  \cup {[t |-> "object", method |-> m, params |-> p, id |-> i] :
          m \in Methods, p \in ParamsVals, i \in Ids}

Request(variant, httpMethod, path, body) ==
  [variant |-> variant, httpMethod |-> httpMethod, path |-> path, body |-> body]

\* The requests served as one exchange; a body is drawn for the branches
\* that read one.  Of a streaming branch (the GET keep-alive stream of
\* part_000, the bidirectional stream of part_001) the exchange is the
\* response that hands the stream over: what the stream then carries is the
\* matter of ConnSpec and DuplexSpec.  The requests index.ts declares no
\* route for are left to the hono library.
Admissible(r) ==
  /\ Route(r.variant, r.httpMethod, r.path) # "unrouted"
  /\ ReadsBody(Route(r.variant, r.httpMethod, r.path)) <=> r.body # NoBody

NoRequest == Request("none", "none", "none", NoBody)
NoLookup == [phone |-> <<>>, query |-> <<>>, reply |-> [t |-> "none"]]

----------------------------------------------------------------------------
(* State *)

VARIABLES
  pc,      \* "idle", "handling", "lookup", "body", "done", "failed"
  req,     \* the request being served
  resp,    \* the response sent for it
  calls,   \* outbound calls made while serving it
  lookup,  \* the number looked up, the query it came from, the reply
  issued,  \* history, no state of the worker: the ids of DocIdVals that
           \* earlier searches have returned
  conns,   \* the connections served side by side (ConnSpec)
  duplex,  \* a bidirectional event stream of part_001 (DuplexSpec)
  probe,   \* one call of checkSpamScore (LookupSpec)
  util     \* one application of the utilities to a text (UtilSpec)

exchangeVars == <<pc, req, resp, calls, lookup, issued>>

vars == <<pc, req, resp, calls, lookup, issued, conns, duplex, probe, util>>

\* A connection slot: what one invocation of the fetch handler holds in its
\* locals, for a POST exchange (pc, req, resp, lookup) or for a GET /sse
\* stream of part_000 (phase, frames, and its two timers)
IdleConn ==
  [kind |-> "none", pc |-> "none", req |-> NoRequest, resp |-> NoResponse,
   lookup |-> NoLookup, phase |-> "none", frames |-> <<>>, nextTick |-> 0,
   live |-> FALSE, expired |-> FALSE]

Conns == {"a", "b"}

IdleConns == [c \in Conns |-> IdleConn]

\* The locals of handleRequest of part_001: the text the caller sends (sent,
\* kept for reference) and what of it is still to arrive, the buffer, the
\* lines of the chunk at hand, the frames written, the lookup under way;
\* aborted: handleRequest left its try block on an error; exit: the path it
\* left on ("done", "nobody", "readerror", "writeerror").  out holds the
\* frames the consumer of the response has taken; pending is the frame of
\* the writer.write handleRequest is suspended on and resume the place it
\* goes on from; cancelled: the consumer has cancelled the response.  cut is
\* history: a chunk has ended inside a `data: ` line.
NoFrame == [framing |-> "none"]

IdleDuplex ==
  [pc |-> "none", sent |-> <<>>, input |-> <<>>, buffer |-> <<>>,
   lines |-> <<>>, out |-> <<>>, lookup |-> NoLookup, aborted |-> FALSE,
   exit |-> "none", pending |-> NoFrame, resume |-> "none",
   cancelled |-> FALSE, cut |-> FALSE]

\* One call of checkSpamScore: its arguments, the upstream's reply and what
\* the call ends in
IdleProbe ==
  [pc |-> "none", variant |-> "none", phoneNumber |-> <<>>, reply |-> NoReply,
   outcome |-> Return(Undefined)]

\* One application of isE164, maskPhoneNumber and createDocumentId to a
\* text: what each returned, and the loop of createDocumentId at its i-th
\* character with the hash so far (ref: the same hash by the reference
\* arithmetic); from and code are the operands of a single loop step
IdleUtil ==
  [pc |-> "none", input |-> <<>>, valid |-> FALSE, masked |-> <<>>, i |-> 0,
   hash |-> Int32(0, 0), ref |-> Int32(0, 0), id |-> <<>>,
   from |-> Int32(0, 0), code |-> 0]

\* The ids of the items of a result list, {} for any other payload
ItemIds(payload) ==
  IF payload.shape = "envelope" /\ payload.result.t = "object"
       /\ payload.result.kind = "results"
    THEN {payload.result.items[i].id : i \in 1..Len(payload.result.items)}
  ELSE {}

Init ==
  /\ pc = "idle"
  /\ req = NoRequest
  /\ resp = NoResponse
  /\ calls = 0
  /\ lookup = NoLookup
  /\ issued = {}
  /\ conns = IdleConns
  /\ duplex = IdleDuplex
  /\ probe = IdleProbe
  /\ util = IdleUtil

RouteOf(r) == Route(r.variant, r.httpMethod, r.path)

\* A request arrives.
Receive ==
  /\ pc = "idle"
  /\ \E v \in Variants, h \in HttpMethods, p \in Paths, b \in Bodies \cup {NoBody} :
       /\ Admissible(Request(v, h, p, b))
       /\ req' = Request(v, h, p, b)
  /\ pc' = "handling"
  /\ UNCHANGED <<resp, calls, lookup, issued, conns, duplex, probe, util>>

\* A branch that reads no body answers.
Answer ==
  /\ pc = "handling"
  /\ ~ReadsBody(RouteOf(req))
  /\ resp' = StaticResponse(req.variant, RouteOf(req))
  /\ pc' = "done"
  /\ UNCHANGED <<req, calls, lookup, issued, conns, duplex, probe, util>>

\* The body is read and the message dispatched; the handler returns, throws,
\* or makes the outbound call and suspends on it.
Handle ==
  /\ pc = "handling"
  /\ ReadsBody(RouteOf(req))
  /\ LET o == Dispatch(req.variant, req.body) IN
       IF o.k = "await"
         THEN /\ calls' = calls + 1
              /\ lookup' = [phone |-> o.phone, query |-> o.query, reply |-> NoReply]
              /\ pc' = "lookup"
              /\ UNCHANGED resp
       ELSE IF req.variant = "hono" /\ o.k = "throw" /\ HonoEscapes(req.body)
         THEN /\ pc' = "failed"
              /\ UNCHANGED <<resp, calls, lookup>>
       ELSE /\ resp' = Deliver(req.variant, RouteOf(req), req.body, o)
            /\ pc' = "done"
            /\ UNCHANGED <<calls, lookup>>
  /\ UNCHANGED <<req, issued, conns, duplex, probe, util>>

\* The outbound call settles: it fails, or the status line of the reply
\* arrives.  On a failure or a status that is not ok the search answers;
\* otherwise the handler suspends again, on the read of the reply's body.
UpstreamReply ==
  /\ pc = "lookup"
  /\ \E reply \in Replies :
       IF AwaitsJson(req.variant, lookup.phone, reply)
         THEN /\ lookup' = [lookup EXCEPT !.reply = HeadOf(reply)]
              /\ pc' = "body"
              /\ UNCHANGED <<resp, issued>>
       ELSE /\ lookup' = [lookup EXCEPT !.reply = reply]
            /\ resp' = Deliver(req.variant, RouteOf(req), req.body,
                               Return(FinishLookup(req.variant,
                                                   MessageOf(req.body).id,
                                                   lookup.query, lookup.phone,
                                                   reply)))
            /\ issued' = issued
                           \cup (ItemIds(resp'.payload) \cap IssuableIds)
            /\ pc' = "done"
  /\ UNCHANGED <<req, calls, conns, duplex, probe, util>>

\* The body of the reply has arrived (or is no JSON); the search answers.
BodyRead ==
  /\ pc = "body"
  /\ \E reply \in Replies :
       /\ reply.t = "http"
       /\ reply.status = lookup.reply.status
       /\ lookup' = [lookup EXCEPT !.reply = reply]
       /\ resp' = Deliver(req.variant, RouteOf(req), req.body,
                          Return(FinishLookup(req.variant, MessageOf(req.body).id,
                                              lookup.query, lookup.phone, reply)))
  /\ issued' = issued \cup (ItemIds(resp'.payload) \cap IssuableIds)
  /\ pc' = "done"
  /\ UNCHANGED <<req, calls, conns, duplex, probe, util>>

\* The exchange is over; the worker keeps nothing of it.
Finish ==
  /\ pc \in {"done", "failed"}
  /\ pc' = "idle"
  /\ req' = NoRequest
  /\ resp' = NoResponse
  /\ calls' = 0
  /\ lookup' = NoLookup
  /\ UNCHANGED <<issued, conns, duplex, probe, util>>

Next == Receive \/ Answer \/ Handle \/ UpstreamReply \/ BodyRead \/ Finish

Spec == Init /\ [][Next]_vars

----------------------------------------------------------------------------
(* Connections served side by side: POST exchanges of every variant and     *)
(* GET /sse streams of part_000.  Every invocation of the fetch handler     *)
(* keeps what it works on in its own locals.                                *)

\* Ticks of one stream's interval timer the model follows
MaxTicks == 12

\* setInterval(..., 30000) and setTimeout(..., 300000), in milliseconds
KeepAliveInterval == 30000
MaxLifetime == 300000

\* ':ok\n\n' and ':keepalive\n\n'
OkFrame == ":ok"
KeepAliveFrame == ":keepalive"

\* The interval is left running.
clearInterval_Ignored(live) == live

\* clearInterval(interval): the interval is no longer live
clearInterval(live) == FALSE

\* The number under lookup kept in a binding all invocations share, which
\* holds what the invocation for connection "a" put there.
Own_SharedLookup(cs, c) == [cs[c] EXCEPT !.lookup = cs["a"].lookup]

\* The locals of the invocation that serves connection c
Own(cs, c) == cs[c]

\* ReadableStream's start(controller): the readiness frame is enqueued and
\* the two timers are armed
start(st) ==
  [st EXCEPT !.kind = "stream", !.phase = "readable", !.frames = <<OkFrame>>,
             !.nextTick = KeepAliveInterval, !.live = TRUE, !.expired = FALSE]

\* The callback with a catch block that only swallows the error
IntervalTick_Swallowed(st) ==
  IF st.phase = "readable"
    THEN [st EXCEPT !.frames = Append(@, KeepAliveFrame),
                    !.nextTick = @ + KeepAliveInterval]
  ELSE [st EXCEPT !.nextTick = @ + KeepAliveInterval]

\* The callback of setInterval: controller.enqueue throws once the consumer
\* has cancelled the stream, and the catch clears the interval
IntervalTick(st) ==
  IF st.phase = "readable"
    THEN [st EXCEPT !.frames = Append(@, KeepAliveFrame),
                    !.nextTick = @ + KeepAliveInterval]
  ELSE [st EXCEPT !.live = clearInterval(@), !.nextTick = @ + KeepAliveInterval]

\* The callback of setTimeout: the interval is cleared and the promise given
\* to ctx.waitUntil resolves; the controller is not touched
LifetimeExpired(st) ==
  [st EXCEPT !.live = clearInterval(@), !.expired = TRUE]

\* A POST exchange from the read of its body to its first suspension on the
\* outbound call, or to its end
ServeBody(st) ==
  IF Dispatch(st.req.variant, st.req.body).k = "await"
    THEN [st EXCEPT !.pc = "lookup",
                    !.lookup = [phone |-> Dispatch(st.req.variant, st.req.body).phone,
                                query |-> Dispatch(st.req.variant, st.req.body).query,
                                reply |-> NoReply]]
  ELSE IF st.req.variant = "hono" /\ HonoEscapes(st.req.body)
    THEN [st EXCEPT !.pc = "failed"]
  ELSE [st EXCEPT !.pc = "done",
                  !.resp = Deliver(st.req.variant, RouteOf(st.req), st.req.body,
                                   Dispatch(st.req.variant, st.req.body))]

\* ... and from the upstream's reply, all of it at hand, to its end
ServeReply(st, reply) ==
  [st EXCEPT !.pc = "done",
             !.lookup = [@ EXCEPT !.reply = reply],
             !.resp = Deliver(st.req.variant, RouteOf(st.req), st.req.body,
                              Return(FinishLookup(st.req.variant,
                                                  MessageOf(st.req.body).id,
                                                  st.lookup.query, st.lookup.phone,
                                                  reply)))]

\* ... from the settling of the outbound call to the suspension on the read
\* of the reply's body, or to the end
ServeHead(st, reply) ==
  IF AwaitsJson(st.req.variant, st.lookup.phone, reply)
    THEN [st EXCEPT !.pc = "body", !.lookup = [@ EXCEPT !.reply = HeadOf(reply)]]
  ELSE ServeReply(st, reply)

Message(method, params, id) ==
  [t |-> "object", method |-> method, params |-> params, id |-> id]

SearchFor(query) ==
  [t |-> "object", name |-> "search",
   arguments |-> [t |-> "object", query |-> Str(query), id |-> Undefined]]

\* The POST requests and the upstream replies the connections draw from
ConnBodies ==
  {[t |-> "invalid"],
   Message("initialize", Undefined, "7"),
   Message("tools/call", Undefined, "7"),
   Message("tools/call", SearchFor(<<"+">> \o DigitRun(11)), "abc"),
   Message("tools/call", SearchFor(<<"+">> \o DigitRun(12)), "7"),
   Message("tools/call", SearchFor(<<"h", "e", "l", "l", "o">>), "abc")}

ConnRequests ==
  {r \in {Request(v, "POST", p, b) : v \in Variants, p \in {"/mcp", "/sse"},
                                     b \in ConnBodies} :
     Admissible(r) /\ ReadsBody(RouteOf(r))}

ConnReplies ==
  {r \in Replies :
     \/ r.t = "rejected"
     \/ r.t = "http" /\ r.status = 429
     \/ r.t = "http" /\ r.status = 200 /\ r.body.t = "object"
          /\ ScoreOf(r.body) = Num(1) /\ r.body.carrier.t = "object"
          /\ BlockOf(r.body).status = "successful"}

ConnInit == Init

\* A GET arrives on /sse of part_000: the stream is built and started.
Open(c) ==
  /\ Own(conns, c).kind = "none"
  /\ Route("table", "GET", "/sse") = "stream"
  /\ conns' = [conns EXCEPT ![c] = start(Own(conns, c))]
  /\ UNCHANGED <<exchangeVars, duplex, probe, util>>

\* The interval timer of the stream fires.  It is due before the lifetime
\* timer until 300 s have passed, and at 300 s the two are due together.
Tick(c) ==
  /\ Own(conns, c).kind = "stream"
  /\ Own(conns, c).live
  /\ Own(conns, c).expired \/ Own(conns, c).nextTick <= MaxLifetime
  /\ Own(conns, c).nextTick <= MaxTicks * KeepAliveInterval
  /\ conns' = [conns EXCEPT ![c] = IntervalTick(Own(conns, c))]
  /\ UNCHANGED <<exchangeVars, duplex, probe, util>>

\* The lifetime timer of the stream fires, once every tick due before it
\* has fired.
Expire(c) ==
  /\ Own(conns, c).kind = "stream"
  /\ ~Own(conns, c).expired
  /\ Own(conns, c).live => Own(conns, c).nextTick >= MaxLifetime
  /\ conns' = [conns EXCEPT ![c] = LifetimeExpired(Own(conns, c))]
  /\ UNCHANGED <<exchangeVars, duplex, probe, util>>

\* The consumer of the stream tears the connection down.
Cancel(c) ==
  /\ Own(conns, c).kind = "stream"
  /\ Own(conns, c).phase = "readable"
  /\ conns' = [conns EXCEPT ![c] = [Own(conns, c) EXCEPT !.phase = "cancelled"]]
  /\ UNCHANGED <<exchangeVars, duplex, probe, util>>

\* A POST arrives; the handler suspends on the read of its body.
Arrive(c) ==
  /\ Own(conns, c).kind = "none"
  /\ \E r \in ConnRequests :
       conns' = [conns EXCEPT ![c] =
                   [Own(conns, c) EXCEPT !.kind = "post", !.pc = "reading", !.req = r]]
  /\ UNCHANGED <<exchangeVars, duplex, probe, util>>

\* The body is read and the message dispatched.
ReadBody(c) ==
  /\ Own(conns, c).pc = "reading"
  /\ conns' = [conns EXCEPT ![c] = ServeBody(Own(conns, c))]
  /\ UNCHANGED <<exchangeVars, duplex, probe, util>>

\* The outbound call of the exchange settles.
Reply(c) ==
  /\ Own(conns, c).pc = "lookup"
  /\ \E reply \in ConnReplies :
       conns' = [conns EXCEPT ![c] = ServeHead(Own(conns, c), reply)]
  /\ UNCHANGED <<exchangeVars, duplex, probe, util>>

\* The body of the reply arrives.
ReplyBody(c) ==
  /\ Own(conns, c).pc = "body"
  /\ \E reply \in ConnReplies :
       /\ reply.t = "http"
       /\ reply.status = Own(conns, c).lookup.reply.status
       /\ conns' = [conns EXCEPT ![c] = ServeReply(Own(conns, c), reply)]
  /\ UNCHANGED <<exchangeVars, duplex, probe, util>>

ConnNext ==
  \E c \in Conns :
    \/ Open(c)
    \/ Tick(c)
    \/ Expire(c)
    \/ Cancel(c)
    \/ Arrive(c)
    \/ ReadBody(c)
    \/ Reply(c)
    \/ ReplyBody(c)

ConnSpec == ConnInit /\ [][ConnNext]_vars

\* The runtime runs the callback of a timer that is due: an interval that
\* is live ticks, and the lifetime timer fires.
ConnFair ==
  ConnSpec /\ \A c \in Conns : WF_vars(Tick(c)) /\ WF_vars(Expire(c))

----------------------------------------------------------------------------
(* The bidirectional event stream of part_001: handleRequest reads the      *)
(* request body chunk by chunk, splits it into lines and answers every      *)
(* `data: ` line with one frame on the response stream.                     *)

\* Lines of text a caller sends on one stream
MaxFrames == 3

LF == "\n"
DataPrefix == "data: "

\* The payloads the model sends: text that is no JSON, the JSON text of
\* three messages, and the JSON text null
BadText == "{"
InitText == "{\"jsonrpc\":\"2.0\",\"id\":\"7\",\"method\":\"initialize\"}"
CallText == "{\"jsonrpc\":\"2.0\",\"id\":\"7\",\"method\":\"tools/call\"}"
SearchText ==
  "{\"jsonrpc\":\"2.0\",\"id\":\"abc\",\"method\":\"tools/call\",\"params\":{\"name\":\"search\",\"arguments\":{\"query\":\"+12345678901\"}}}"
NullText == "null"

\* JSON.parse of a run of tokens: the value of the one token that is JSON
\* text, a SyntaxError for anything else
JSONparse(text) ==
  IF Len(text) # 1 THEN [t |-> "invalid"]
  ELSE CASE text[1] = InitText -> Message("initialize", Undefined, "7")
         [] text[1] = CallText -> Message("tools/call", Undefined, "7")
         [] text[1] = SearchText ->
              Message("tools/call", SearchFor(<<"+">> \o DigitRun(11)), "abc")
         [] text[1] = NullText -> [t |-> "null"]
         [] OTHER -> [t |-> "invalid"]

\* text.split('\n')
RECURSIVE Split(_)
Split(text) ==
  IF \A i \in 1..Len(text) : text[i] # LF THEN <<text>>
  ELSE <<SubSeq(text, 1, (CHOOSE i \in 1..Len(text) :
                            text[i] = LF /\ \A j \in 1..(i - 1) : text[j] # LF) - 1)>>
       \o Split(SubSeq(text,
                       (CHOOSE i \in 1..Len(text) :
                          text[i] = LF /\ \A j \in 1..(i - 1) : text[j] # LF) + 1,
                       Len(text)))

\* lines.pop() || '' and what pop leaves
Last(ls) == ls[Len(ls)]
AllButLast(ls) == SubSeq(ls, 1, Len(ls) - 1)

\* `line.trim() && line.startsWith('data: ')`
IsDataLine(line) == Len(line) >= 1 /\ line[1] = DataPrefix

\* formatSSE(data), and the comment frame ':ok\n\n'
formatSSE(data) == [framing |-> "sse", payload |-> data]
ReadyFrame == [framing |-> "comment", payload |-> [shape |-> "comment", text |-> OkFrame]]

\* The frame of the catch block inside the loop
ParseErrorFrame == formatSSE(ErrorEnvelope("null", -32700, <<"Parse error">>))

\* The for loop moves on to the next line; with none left the while loop
\* reads again
NextLine(st) ==
  [st EXCEPT !.lines = Tail(@),
             !.pc = IF Len(st.lines) > 1 THEN "lines" ELSE "reading"]

\* await writer.write(encoder.encode(frame)) in the for loop: handleRequest
\* is suspended until the consumer of the response takes the frame, and
\* then goes on with the next line
Written(st, frame) ==
  [NextLine(st) EXCEPT !.pc = "write", !.pending = frame,
                       !.resume = NextLine(st).pc]

\* The error of a frame ends handleRequest: it reaches the outer catch and
\* the writer is closed.
OnFrameError_Rethrown(st) == [st EXCEPT !.pc = "closed"]

\* catch (e) { ... await writer.write(formatSSE(errorResponse)) }: the parse
\* error frame is written and the loop goes on
OnFrameError(st) == Written(st, ParseErrorFrame)

\* The outcome of a line that is no `data: ` line: the if is not entered
Skipped == [k |-> "skip"]

\* The body of the for loop for the line at hand, up to the suspension on
\* the outbound call or on the write of the frame; outcome is what
\* JSON.parse(line.slice(6)) and handleMCPMessage(message, env) came to
\* (they threw, the handler returned, or it is suspended on its call)
HandleLine(st, outcome) ==
  CASE outcome.k = "skip" -> NextLine(st)
    [] outcome.k = "throw" -> OnFrameError(st)
    [] outcome.k = "await" ->
         [st EXCEPT !.pc = "lookup",
                    !.lookup = [phone |-> outcome.phone, query |-> outcome.query,
                                reply |-> NoReply]]
    [] OTHER -> Written(st, formatSSE(outcome.value))

\* ... and from the upstream's reply, all of it at hand, to the end of the
\* iteration
HandleReply(st, reply) ==
  Written([st EXCEPT !.lookup = [@ EXCEPT !.reply = reply]],
          formatSSE(FinishLookup("stream",
                                 MessageOf(JSONparse(Tail(Head(st.lines)))).id,
                                 st.lookup.query, st.lookup.phone, reply)))

\* ... from the settling of the outbound call to the suspension on the read
\* of the reply's body, or to the end of the iteration
HandleHead(st, reply) ==
  IF AwaitsJson("stream", st.lookup.phone, reply)
    THEN [st EXCEPT !.pc = "body", !.lookup = [@ EXCEPT !.reply = HeadOf(reply)]]
  ELSE HandleReply(st, reply)

\* handleRequest ends with the writer left open.
Finally_Skipped(st) == [st EXCEPT !.pc = "ended"]

\* finally { await writer.close() }
Finally(st) == [st EXCEPT !.pc = "closed"]

\* A chunk has ended inside a `data: ` line whose line feed is still to
\* arrive: the buffer holds the beginning of the line
IsCut(st) ==
  /\ Len(st.buffer) >= 1
  /\ st.buffer[1] = DataPrefix
  /\ \E i \in 1..Len(st.input) : st.input[i] = LF

\* The lines are split off the chunk alone; the buffer only collects what is
\* left over.
TakeChunk_ChunkOnly(st, k) ==
  [st EXCEPT
    !.input = SubSeq(@, k + 1, Len(@)),
    !.buffer = st.buffer \o Last(Split(SubSeq(st.input, 1, k))),
    !.lines = AllButLast(Split(SubSeq(st.input, 1, k))),
    !.pc = IF Len(Split(SubSeq(st.input, 1, k))) > 1 THEN "lines" ELSE "reading"]

\* buffer += chunk; lines = buffer.split('\n'); buffer = lines.pop() || ''
TakeChunk(st, k) ==
  [st EXCEPT
    !.input = SubSeq(@, k + 1, Len(@)),
    !.buffer = Last(Split(st.buffer \o SubSeq(st.input, 1, k))),
    !.lines = AllButLast(Split(st.buffer \o SubSeq(st.input, 1, k))),
    !.pc = IF Len(Split(st.buffer \o SubSeq(st.input, 1, k))) > 1
             THEN "lines" ELSE "reading"]

\* The lines the model sends: a frame that is no JSON, four frames that
\* are, and a comment line
LineChoices ==
  {<<DataPrefix, BadText>>, <<DataPrefix, InitText>>, <<DataPrefix, CallText>>,
   <<DataPrefix, SearchText>>, <<DataPrefix, NullText>>, <<":note">>}

\* The texts of at most n lines, every line ended by a line feed
RECURSIVE TextsOf(_)
TextsOf(n) ==
  IF n = 0 THEN {<<>>}
  ELSE TextsOf(n - 1)
       \cup {l \o <<LF>> \o t : l \in LineChoices, t \in TextsOf(n - 1)}

\* ... and those whose last line lacks its line feed
DuplexTexts ==
  TextsOf(MaxFrames)
  \cup {t \o <<DataPrefix, InitText>> : t \in TextsOf(MaxFrames - 1)}

DuplexInit == Init

\* A request arrives on /sse: handleRequest starts and is suspended on the
\* write of ':ok'; the response is returned with the readable side.
Connect ==
  /\ duplex.pc = "none"
  /\ Route("stream", "POST", "/sse") = "stream"
  /\ \E text \in DuplexTexts :
       duplex' = [IdleDuplex EXCEPT !.pc = "write", !.sent = text,
                                    !.input = text, !.pending = ReadyFrame,
                                    !.resume = "reading"]
  /\ UNCHANGED <<exchangeVars, conns, probe, util>>

\* A request without a body arrives on /sse: handleRequest starts and is
\* suspended on the write of ':ok'; request.body?.getReader() will be
\* undefined.
ConnectBare ==
  /\ duplex.pc = "none"
  /\ Route("stream", "GET", "/sse") = "stream"
  /\ duplex' = [IdleDuplex EXCEPT !.pc = "write", !.pending = ReadyFrame,
                                  !.resume = "bodiless"]
  /\ UNCHANGED <<exchangeVars, conns, probe, util>>

\* The consumer of the response takes the frame: the write resolves and
\* handleRequest goes on.
Take ==
  /\ duplex.pc = "write"
  /\ ~duplex.cancelled
  /\ duplex' = [duplex EXCEPT !.out = Append(@, duplex.pending),
                              !.pc = duplex.resume,
                              !.pending = NoFrame, !.resume = "none"]
  /\ UNCHANGED <<exchangeVars, conns, probe, util>>

\* The consumer cancels the response.  handleRequest is not told: it goes
\* on reading, handling lines and making calls until a write of its own
\* rejects.
ConsumerCancel ==
  /\ duplex.pc \notin {"none", "closed", "ended"}
  /\ ~duplex.cancelled
  /\ duplex' = [duplex EXCEPT !.cancelled = TRUE]
  /\ UNCHANGED <<exchangeVars, conns, probe, util>>

\* The write on a cancelled response rejects (a write inside the loop is
\* caught by the inner catch, whose own write rejects as well): the outer
\* catch logs the error and the writer is closed.
WriteFails ==
  /\ duplex.pc = "write"
  /\ duplex.cancelled
  /\ duplex' = Finally([duplex EXCEPT !.aborted = TRUE, !.exit = "writeerror",
                                      !.pending = NoFrame, !.resume = "none"])
  /\ UNCHANGED <<exchangeVars, conns, probe, util>>

\* reader.read() yields a chunk: any part of the text still to arrive.
ReadChunk ==
  /\ duplex.pc = "reading"
  /\ \E k \in 1..Len(duplex.input) :
       duplex' = [TakeChunk(duplex, k) EXCEPT
                    !.cut = @ \/ IsCut(TakeChunk(duplex, k))]
  /\ UNCHANGED <<exchangeVars, conns, probe, util>>

\* `if (reader)` skips the loop and the writer is closed.
SkipRead ==
  /\ duplex.pc = "bodiless"
  /\ duplex' = Finally([duplex EXCEPT !.exit = "nobody"])
  /\ UNCHANGED <<exchangeVars, conns, probe, util>>

\* reader.read() reports the end of the body: the loop ends and the writer
\* is closed.
ReadDone ==
  /\ duplex.pc = "reading"
  /\ duplex.input = <<>>
  /\ duplex' = Finally([duplex EXCEPT !.exit = "done"])
  /\ UNCHANGED <<exchangeVars, conns, probe, util>>

\* reader.read() rejects: the outer catch logs the error and the writer is
\* closed.
ReadError ==
  /\ duplex.pc = "reading"
  /\ duplex' = Finally([duplex EXCEPT !.aborted = TRUE, !.exit = "readerror"])
  /\ UNCHANGED <<exchangeVars, conns, probe, util>>

\* One iteration of the for loop.
Line ==
  /\ duplex.pc = "lines"
  /\ IF ~IsDataLine(Head(duplex.lines)) THEN duplex' = HandleLine(duplex, Skipped)
     ELSE \E message \in {JSONparse(Tail(Head(duplex.lines)))} :
            \E outcome \in {Dispatch("stream", message)} :
              duplex' = HandleLine(duplex, outcome)
  /\ UNCHANGED <<exchangeVars, conns, probe, util>>

\* The outbound call for the frame at hand settles.
LineReply ==
  /\ duplex.pc = "lookup"
  /\ \E reply \in ConnReplies : duplex' = HandleHead(duplex, reply)
  /\ UNCHANGED <<exchangeVars, conns, probe, util>>

\* The body of the reply arrives.
LineBody ==
  /\ duplex.pc = "body"
  /\ \E reply \in ConnReplies :
       /\ reply.t = "http"
       /\ reply.status = duplex.lookup.reply.status
       /\ duplex' = HandleReply(duplex, reply)
  /\ UNCHANGED <<exchangeVars, conns, probe, util>>

DuplexNext ==
  \/ Connect
  \/ ConnectBare
  \/ Take
  \/ ConsumerCancel
  \/ WriteFails
  \/ SkipRead
  \/ ReadChunk
  \/ ReadDone
  \/ ReadError
  \/ Line
  \/ LineReply
  \/ LineBody

DuplexSpec == DuplexInit /\ [][DuplexNext]_vars

\* What the runtime guarantees: handleRequest runs on once the promise it
\* awaits has settled (the next line of the loop, the skipped loop, the
\* rejection of a write on a cancelled response).  Whether the consumer
\* takes a frame, the upstream answers or the body goes on is not the
\* worker's to decide.
DuplexFair ==
  DuplexSpec /\ WF_vars(Line) /\ WF_vars(SkipRead) /\ WF_vars(WriteFails)

----------------------------------------------------------------------------
(* checkSpamScore on its own, for every body a 2xx reply can carry *)

LookupNumbers == {<<"+">> \o DigitRun(10), <<"+">> \o DigitRun(15)}

LookupReplies ==
  {[t |-> "http", status |-> 200, body |-> b] : b \in LookupBodies}

LookupInit == Init

\* checkSpamScore is called with a number that passes its format check, and
\* suspends on the outbound call.
Call ==
  /\ probe.pc = "none"
  /\ \E v \in Variants, n \in LookupNumbers :
       /\ checkSpamScoreGate(n)
       /\ probe' = [IdleProbe EXCEPT !.pc = "called", !.variant = v,
                                     !.phoneNumber = n]
  /\ UNCHANGED <<exchangeVars, conns, duplex, util>>

\* The outbound call settles: checkSpamScore suspends on the read of the
\* body, or (the SDK's one await) returns or throws.
Settle ==
  /\ probe.pc = "called"
  /\ \E reply \in LookupReplies :
       probe' = IF AwaitsJson(probe.variant, probe.phoneNumber, reply)
                  THEN [probe EXCEPT !.pc = "reading", !.reply = HeadOf(reply)]
                ELSE [probe EXCEPT
                        !.pc = "settled",
                        !.reply = reply,
                        !.outcome = checkSpamScoreReply(probe.variant,
                                                        probe.phoneNumber, reply)]
  /\ UNCHANGED <<exchangeVars, conns, duplex, util>>

\* The body of the reply arrives; checkSpamScore returns or throws.
SettleBody ==
  /\ probe.pc = "reading"
  /\ \E reply \in LookupReplies :
       /\ reply.status = probe.reply.status
       /\ probe' = [probe EXCEPT
                      !.pc = "settled",
                      !.reply = reply,
                      !.outcome = checkSpamScoreReply(probe.variant,
                                                      probe.phoneNumber, reply)]
  /\ UNCHANGED <<exchangeVars, conns, duplex, util>>

LookupNext == Call \/ Settle \/ SettleBody

LookupSpec == LookupInit /\ [][LookupNext]_vars

----------------------------------------------------------------------------
(* The utilities on their own, over texts of every shape *)

ArabicThree == "U+0663"

UtilPrefixes == {<<>>, <<"+">>, <<" ", "+">>, <<"+", "+">>, <<"1", "+">>}

UtilSuffixes == {<<>>, <<" ">>, <<LF>>, <<"e">>, <<"+">>}

\* A run of digits between a prefix and a suffix
Framed ==
  {p \o DigitRun(n) \o x : p \in UtilPrefixes, n \in 0..MaxDigits, x \in UtilSuffixes}

\* + and a run of 10 or of 15 characters, all digits but the k-th (if any)
Spoiled ==
  {<<"+">> \o [i \in 1..n |-> IF i = k THEN c ELSE DigitRun(n)[i]] :
     n \in {10, 15}, k \in 1..15, c \in {" ", "e", "+", ArabicThree}}

\* Texts whose hash overflows 32 bits: GydZG_ hashes to -2^31, and oh87e523
\* and 986_h+e1 to -353391287 and 353391287
Overflowing ==
  {<<"G", "y", "d", "Z", "G", "_">>,
   <<"o", "h", "8", "7", "e", "5", "2", "3">>,
   <<"9", "8", "6", "_", "h", "+", "e", "1">>,
   <<"h", "e", "l", "l", "o">>}

UtilInputs == Framed \cup Spoiled \cup Overflowing

\* 32-bit hashes at the edges of the range and of the shift
SampleHashes ==
  {Int32(0, 0), Int32(0, 1), Int32(0, 65535), Int32(1, 0), Int32(1024, 0),
   Int32(2047, 65535), Int32(2048, 0), Int32(4660, 22136), Int32(32767, 65535),
   Int32(32768, 0), Int32(32768, 1), Int32(43981, 61185), Int32(65535, 0),
   Int32(65535, 65535)}

\* Character codes (UTF-16 code units)
SampleCodes == {0, 10, 43, 57, 127, 255, 1635, 55357, 65535}

UtilInit == Init

\* The three utilities are called on a text; createDocumentId enters its loop.
Apply ==
  /\ util.pc = "none"
  /\ \E s \in UtilInputs :
       util' = [IdleUtil EXCEPT !.pc = "hashing", !.input = s,
                                !.valid = isE164(s),
                                !.masked = maskPhoneNumber(s), !.i = 1]
  /\ UNCHANGED <<exchangeVars, conns, duplex, probe>>

\* (hash * 31 + code) mod 2^32: the product and the sum of the halves
Times31Plus(h, code) ==
  [hi |-> (h.hi * 31 + (h.lo * 31 + code) \div 65536) % 65536,
   lo |-> (h.lo * 31 + code) % 65536]

\* One iteration of the loop of createDocumentId.
HashChar ==
  /\ util.pc = "hashing"
  /\ util.i <= Len(util.input)
  /\ util' = [util EXCEPT
                !.hash = HashStep(util.hash, charCodeAt(util.input[util.i])),
                !.ref = Times31Plus(util.ref, charCodeAt(util.input[util.i])),
                !.i = util.i + 1]
  /\ UNCHANGED <<exchangeVars, conns, duplex, probe>>

\* The loop is over; createDocumentId returns the id.
Identify ==
  /\ util.pc = "hashing"
  /\ util.i > Len(util.input)
  /\ util' = [util EXCEPT !.pc = "done", !.id = createDocumentId(util.input)]
  /\ UNCHANGED <<exchangeVars, conns, duplex, probe>>

\* One iteration of the loop from any hash, with any character code.
StepFrom ==
  /\ util.pc = "none"
  /\ \E h \in SampleHashes, c \in SampleCodes :
       util' = [IdleUtil EXCEPT !.pc = "stepped", !.from = h, !.code = c,
                                !.hash = HashStep(h, c),
                                !.ref = Times31Plus(h, c)]
  /\ UNCHANGED <<exchangeVars, conns, duplex, probe>>

\* The results are dropped.
Forget ==
  /\ util.pc \in {"done", "stepped"}
  /\ util' = IdleUtil
  /\ UNCHANGED <<exchangeVars, conns, duplex, probe>>

UtilNext == Apply \/ HashChar \/ Identify \/ StepFrom \/ Forget

UtilSpec == UtilInit /\ [][UtilNext]_vars

----------------------------------------------------------------------------
(* Vocabulary of the properties *)

\* The text s occurs in the text t as a contiguous run.
Contains(t, s) ==
  \E i \in 0..(Len(t) - Len(s)) :
    \A j \in 1..Len(s) : t[i + j] = s[j]

Served == pc \in {"done", "failed"}

\* The request is a POST whose body the handler reads
IsPost == req # NoRequest /\ ReadsBody(RouteOf(req))

\* ... and the body is a JSON object
IsMessage == IsPost /\ req.body.t = "object"

\* ... that calls the named tool
IsToolCall(name) ==
  /\ IsMessage
  /\ req.body.method = "tools/call"
  /\ req.body.params.t = "object"
  /\ req.body.params.name = name

\* ... a search whose query argument is a string
IsStringSearch ==
  /\ IsToolCall("search")
  /\ OptQuery(req.body.params.arguments).t = "string"

RawQuery == OptQuery(req.body.params.arguments).s

IsEnvelope(p) == p.shape = "envelope"
HasResult(p) == IsEnvelope(p) /\ p.result.t = "object"
HasError(p) == IsEnvelope(p) /\ p.error.t = "object"
IsErrorCode(p, code) == HasError(p) /\ ~HasResult(p) /\ p.error.code = code

\* A success envelope that carries a result list
IsResultList(p) == HasResult(p) /\ ~HasError(p) /\ p.result.kind = "results"

\* ... of exactly one item, whose id is error_<timestamp>
IsSyntheticError(p) ==
  /\ IsResultList(p)
  /\ Len(p.result.items) = 1
  /\ p.result.items[1].id = <<"error_">> \o NowText

\* The lookup for the number failed: the number is not in the external
\* format, or the call failed, or the reply is not 2xx, or its body is not JSON
LookupFails(number, reply) ==
  \/ ~isE164(number)
  \/ reply.t = "rejected"
  \/ (reply.t = "http" /\ (~IsOk(reply.status) \/ reply.body.t = "invalid"))

\* The reply of the exchange's lookup; NoReply when the number was turned
\* away at the format gate
ReplyGot == lookup.reply

----------------------------------------------------------------------------
(* C1 *)

\* C1: on POST /mcp, a request body that is not valid JSON is answered with an
\* envelope whose error.code is -32700 and whose id is null.
C1_MalformedBodyIsParseError ==
  (Served /\ IsPost /\ RouteOf(req) = "mcp-post" /\ req.body.t = "invalid")
    => /\ pc = "done"
       /\ IsErrorCode(resp.payload, -32700)
       /\ resp.payload.id = "null"

----------------------------------------------------------------------------
(* C2 *)

\* C2: a message whose method is none of initialize, tools/list and tools/call
\* (or is absent) is answered with the -32601 envelope, in the table-driven
\* variant also when the method names a property a plain object inherits.
C2_UnknownMethodNotFound ==
  (Served /\ IsMessage /\ req.body.method \notin TableKeys)
    => /\ pc = "done"
       /\ IsErrorCode(resp.payload, -32601)

----------------------------------------------------------------------------
(* C3 *)

\* The query as the search handler holds it: worker.js, worker-twilio-sdk.js
\* and index.ts trim it
HeldQuery ==
  IF req.variant \in {"worker", "hono", "sdk"} THEN trim(RawQuery) ELSE RawQuery

\* C3 as stated: for a search whose query begins with `+`, every failure of
\* the lookup is answered with a success envelope carrying exactly one item
\* with id error_<timestamp>.
C3_Original ==
  (pc = "done" /\ IsStringSearch /\ StartsWithPlus(RawQuery)
     /\ LookupFails(RawQuery, ReplyGot))
    => IsSyntheticError(resp.payload)

\* C3 (amended): for a search whose query, as the handler holds it, begins
\* with `+` - and in worker.js, worker-twilio-sdk.js and index.ts is longer
\* than 5 characters - every failure of the lookup is answered with a
\* success envelope carrying exactly one item with id error_<timestamp>; in
\* those three variants a `+` query of at most 5 characters is answered with
\* an empty result list and no lookup.
C3_LookupFailureIsSyntheticItem ==
  (pc = "done" /\ IsStringSearch /\ StartsWithPlus(HeldQuery))
    => IF req.variant \in {"worker", "hono", "sdk"} /\ Len(HeldQuery) <= 5
         THEN /\ IsResultList(resp.payload)
              /\ resp.payload.result.items = <<>>
              /\ calls = 0
         ELSE LookupFails(HeldQuery, ReplyGot) => IsSyntheticError(resp.payload)

\* A worker.js search for a well-formed number that the upstream answers
\* with 429, answered with the synthetic item.
C3_Witness ==
  /\ pc = "done"
  /\ IsStringSearch
  /\ req.variant = "worker"
  /\ isE164(HeldQuery)
  /\ ReplyGot.t = "http"
  /\ ReplyGot.status = 429
  /\ IsSyntheticError(resp.payload)

----------------------------------------------------------------------------
(* C4 *)

ItemFields(item) == {item.id, item.title, item.text, item.url}

\* C4: no field of a returned result item contains the caller's number in
\* full (a number longer than four characters), whatever the outcome.
C4_NoUnmaskedNumber ==
  (pc = "done" /\ IsStringSearch /\ Len(HeldQuery) > 4 /\ IsResultList(resp.payload))
    => \A i \in 1..Len(resp.payload.result.items) :
         \A f \in ItemFields(resp.payload.result.items[i]) :
           ~Contains(f, HeldQuery)

----------------------------------------------------------------------------
(* C5 *)

\* C5: a fetch whose id argument is missing or empty (also when arguments is
\* absent) is answered with the -32602 envelope carrying the request's id.
C5_FetchWithoutIdIsInvalidParams ==
  (Served /\ IsToolCall("fetch") /\ ~Truthy(OptId(req.body.params.arguments)))
    => /\ pc = "done"
       /\ IsErrorCode(resp.payload, -32602)
       /\ resp.payload.id = req.body.id

----------------------------------------------------------------------------
(* C6 *)

\* The text of the one item of a result list
OnlyText == resp.payload.result.items[1].text

\* C6: a search whose lookup is answered 404, 401, 429 or another non-2xx
\* status returns one synthetic item whose text carries the not-found, the
\* authentication, the rate-limit or the upstream-error message for it.
C6_StatusMapping ==
  (pc = "done" /\ IsStringSearch /\ ReplyGot.t = "http" /\ ~IsOk(ReplyGot.status))
    => /\ IsSyntheticError(resp.payload)
       /\ ReplyGot.status = 404 => Contains(OnlyText, <<"Phone number not found: ">>)
       /\ ReplyGot.status = 401 => Contains(OnlyText, <<"Twilio authentication failed">>)
       /\ ReplyGot.status = 429 => Contains(OnlyText, <<"Twilio rate limit exceeded">>)
       /\ ReplyGot.status \notin {404, 401, 429}
            => Contains(OnlyText, UpstreamErrorMessage(ReplyGot.status))

----------------------------------------------------------------------------
(* C7 *)

\* The number a search hands to the lookup client, <<>> when it hands none:
\* part_000 takes a `+` query as it is and a run of ten or more digits with
\* +1 put before it; worker.js and index.ts take the trimmed query; part_001
\* takes the query.
NumberSought ==
  IF req.variant = "table"
    THEN (IF StartsWithPlus(RawQuery) THEN RawQuery
          ELSE IF IsDigitRun10(RawQuery) THEN <<"+", "1">> \o RawQuery
          ELSE <<>>)
  ELSE HeldQuery

\* C7: serving one request makes no outbound call unless it is a search whose
\* number passes isE164, and then exactly one, whatever the upstream replies.
C7_OutboundCalls ==
  /\ calls \in {0, 1}
  /\ pc = "lookup" => calls = 1
  /\ Served =>
       calls = IF IsStringSearch /\ isE164(NumberSought) THEN 1 ELSE 0

\* A search answered after the upstream replied 429: one call was made.
C7_Witness ==
  /\ pc = "done"
  /\ IsStringSearch
  /\ ReplyGot.t = "http"
  /\ ReplyGot.status = 429
  /\ calls = 1

----------------------------------------------------------------------------
(* C8 *)

\* C8: a request whose body is a JSON object is answered with an envelope
\* carrying the request's id, whatever the envelope (here for the methods the
\* dispatch knows and for unknown ones).
C8_IdEchoed ==
  (Served /\ IsMessage
     /\ req.body.method \in TableKeys \cup {"resources/list", "undefined"})
    => /\ pc = "done"
       /\ IsEnvelope(resp.payload)
       /\ resp.payload.id = req.body.id

----------------------------------------------------------------------------
(* C9 *)

\* An object with jsonrpc "2.0" and exactly one of result and error, the
\* error with a code and a message
WellFormed(p) ==
  /\ IsEnvelope(p)
  /\ p.jsonrpc = "2.0"
  /\ HasResult(p) # HasError(p)

\* C9: every POST on /mcp or /sse, whatever its body, is answered with a
\* well-formed envelope, which has an id member whenever the request had one.
C9_AlwaysEnvelope ==
  (Served /\ IsPost)
    => /\ pc = "done"
       /\ WellFormed(resp.payload)
       /\ (req.body.t = "object" /\ req.body.id # "undefined")
            => resp.payload.id # "undefined"

----------------------------------------------------------------------------
(* C10 *)

\* C10: on POST /mcp a body that is a JSON object is answered with status 200,
\* also when the message is a tools/call without params or arguments.
C10_ParsedBodyIs200 ==
  (Served /\ IsMessage /\ RouteOf(req) = "mcp-post"
     /\ req.body.method \in TableKeys \cup {"resources/list", "undefined"})
    => /\ pc = "done"
       /\ resp.status = 200

----------------------------------------------------------------------------
(* C11 *)

IsStream(c) == conns[c].kind = "stream"

\* The first frame of every stream is the readiness frame and every later
\* one a keep-alive frame
C11_ReadyFirst ==
  \A c \in Conns :
    IsStream(c) =>
      /\ Len(conns[c].frames) >= 1
      /\ conns[c].frames[1] = OkFrame
      /\ \A i \in 2..Len(conns[c].frames) : conns[c].frames[i] = KeepAliveFrame

\* A frame is written to a started stream only by a tick of its interval
\* timer, one keep-alive frame a tick, and never once the lifetime timer
\* has fired
C11_OnlyOnTicks ==
  \A c \in Conns :
    (IsStream(c) /\ conns'[c].frames # conns[c].frames) =>
      /\ ~conns[c].expired
      /\ conns'[c].nextTick = conns[c].nextTick + KeepAliveInterval
      /\ conns'[c].frames = Append(conns[c].frames, KeepAliveFrame)

\* C11: on a GET /sse stream the first frame written is the readiness frame;
\* keep-alive frames are written only on ticks of the 30-second interval
\* timer; once the 300-second lifetime timer has fired no further frame is
\* written, whichever of the tick and the expiry due at 300 s runs first.
C11_KeepAliveDiscipline == []C11_ReadyFirst /\ [][C11_OnlyOnTicks]_vars

\* A stream whose tick due at 300 s ran before the expiry: the readiness
\* frame and ten keep-alive frames, the lifetime over.
C11_Witness ==
  \E c \in Conns :
    /\ IsStream(c)
    /\ conns[c].expired
    /\ Len(conns[c].frames) = 1 + (MaxLifetime \div KeepAliveInterval)

----------------------------------------------------------------------------
(* C12 *)

\* C12: once the 5-minute lifetime of a GET /sse stream has elapsed the
\* stream is closed: a consumer that is still reading observes its end.
C12_StreamEnds ==
  \A c \in Conns :
    (IsStream(c) /\ conns[c].expired /\ conns[c].phase # "cancelled")
      => conns[c].phase = "closed"

----------------------------------------------------------------------------
(* C13 *)

\* The query, as the handler holds it, is empty or does not look like a phone
\* number: no leading `+` and not a bare run of at least 10 digits
NotPhoneLike(q) == Len(q) = 0 \/ (~StartsWithPlus(q) /\ ~IsDigitRun10(q))

\* C13: a search whose query is empty or does not look like a phone number
\* is answered with a success envelope carrying an empty result list, and no
\* outbound call is made, in every variant.
C13_NonPhoneIsEmpty ==
  (Served /\ IsStringSearch /\ NotPhoneLike(HeldQuery))
    => /\ pc = "done"
       /\ IsResultList(resp.payload)
       /\ resp.payload.result.items = <<>>
       /\ calls = 0

----------------------------------------------------------------------------
(* C14 *)

\* The id argument of a fetch
FetchedId == OptId(req.body.params.arguments)

\* C14: whatever requests were served before, a fetch with a present id is
\* answered with status 200 and a success envelope carrying the static
\* document, which holds no id or the id given, whether or not an earlier
\* search returned that id; no outbound call is made.
C14_FetchIsStateless ==
  (Served /\ IsToolCall("fetch") /\ Truthy(FetchedId))
    => /\ pc = "done"
       /\ resp.status = 200
       /\ HasResult(resp.payload)
       /\ ~HasError(resp.payload)
       /\ resp.payload.id = req.body.id
       /\ resp.payload.result.kind = "document"
       /\ resp.payload.result.id \in {Undefined, FetchedId}
       /\ calls = 0

\* A fetch of the id that an earlier search returned, answered.
C14_Witness ==
  /\ pc = "done"
  /\ IsToolCall("fetch")
  /\ Truthy(FetchedId)
  /\ FetchedId.s \in issued
  /\ resp.payload.result.kind = "document"

----------------------------------------------------------------------------
(* C15 *)

\* C15: a POST to /sse is answered, whatever the outcome, with one
\* event-stream frame carrying a JSON envelope; when the body is not valid
\* JSON the envelope has error.code -32700 and id null.
C15_SsePostOneFrame ==
  (Served /\ IsPost /\ RouteOf(req) = "sse-post")
    => /\ pc = "done"
       /\ resp.framing = "sse"
       /\ WellFormed(resp.payload)
       /\ req.body.t = "invalid"
            => (IsErrorCode(resp.payload, -32700) /\ resp.payload.id = "null")

----------------------------------------------------------------------------
(* C19 *)

\* The score of the upstream's reply, undefined when any level of its
\* nesting is absent
UpstreamScore ==
  IF ReplyGot.t = "http" /\ ReplyGot.body.t = "object"
    THEN Member(Member(BlockOf(ReplyGot.body), "result"), "score")
  ELSE Undefined

\* The response carries the one item of a lookup that succeeded
IsScoredItem(p) ==
  /\ IsResultList(p)
  /\ Len(p.result.items) = 1
  /\ ~IsSyntheticError(p)

\* C19: the label of a scored item is SPAM if and only if the upstream
\* score is 1 and CLEAN for every other score, a missing one included; a
\* search for a well-formed number whose upstream score is 1 returns one
\* item whose text contains "Reputation: SPAM", whose id is the document id
\* of the normalized number and whose url ends with that id.
C19_ReputationLabel ==
  (pc = "done" /\ IsStringSearch)
    => /\ IsScoredItem(resp.payload)
            => /\ Contains(OnlyText, <<", Reputation: ", "SPAM">>)
                    <=> UpstreamScore = Num(1)
               /\ Contains(OnlyText, <<", Reputation: ", "CLEAN">>)
                    <=> UpstreamScore # Num(1)
       /\ (isE164(NumberSought) /\ ReplyGot.t = "http" /\ IsOk(ReplyGot.status)
             /\ UpstreamScore = Num(1))
            => /\ IsScoredItem(resp.payload)
               /\ Contains(OnlyText, <<", Reputation: ", "SPAM">>)
               /\ resp.payload.result.items[1].id = createDocumentId(NumberSought)
               /\ resp.payload.result.items[1].url
                    = ReportUrl(createDocumentId(NumberSought))

----------------------------------------------------------------------------
(* C20 *)

\* C20: a tools/call that names a tool other than search and fetch, or
\* names none (its params have no name, are a primitive, or are missing),
\* is answered with the -32601 envelope carrying the request's id, and no
\* outbound call is made.
C20_UnknownToolNotFound ==
  (Served /\ IsMessage /\ req.body.method = "tools/call"
     /\ NameOf(req.body.params) \notin {"search", "fetch"})
    => /\ pc = "done"
       /\ IsErrorCode(resp.payload, -32601)
       /\ resp.payload.id = req.body.id
       /\ calls = 0

----------------------------------------------------------------------------
(* C16 *)

\* The `data: ` lines of the text sent that end with a line feed, in order
RECURSIVE DataLines(_)
DataLines(ls) ==
  IF ls = <<>> THEN <<>>
  ELSE (IF IsDataLine(Head(ls)) THEN <<Head(ls)>> ELSE <<>>) \o DataLines(Tail(ls))

FramesSent == DataLines(AllButLast(Split(duplex.sent)))

\* The payload of the i-th frame sent is not valid JSON
Malformed(i) == JSONparse(Tail(FramesSent[i])).t = "invalid"

\* C16: on the bidirectional stream, when the body has been read to its end
\* every `data: ` frame sent has been answered with one output frame, in
\* order, after the readiness frame: a frame whose payload is not valid
\* JSON with the parse error (-32700, id null), and every frame that is
\* valid JSON, also after a malformed one, with an envelope, which carries
\* the message's id when the handler returned.
C16_MalformedFrameDoesNotEnd ==
  (duplex.pc = "closed" /\ ~duplex.aborted)
    => /\ Len(duplex.out) = 1 + Len(FramesSent)
       /\ \A i \in 1..Len(FramesSent) :
            /\ duplex.out[i + 1].framing = "sse"
            /\ Malformed(i) => duplex.out[i + 1] = ParseErrorFrame
            /\ ~Malformed(i) => IsEnvelope(duplex.out[i + 1].payload)
            /\ (~Malformed(i) /\ FramesSent[i][2] \in {InitText, SearchText})
                 => /\ HasResult(duplex.out[i + 1].payload)
                    /\ duplex.out[i + 1].payload.id
                         = JSONparse(Tail(FramesSent[i])).id

\* A stream read to its end on which a malformed frame was followed by a
\* search, both answered.
C16_Witness ==
  /\ duplex.pc = "closed"
  /\ ~duplex.aborted
  /\ Len(FramesSent) >= 2
  /\ Malformed(1)
  /\ FramesSent[2][2] = SearchText
  /\ duplex.out[2] = ParseErrorFrame
  /\ IsResultList(duplex.out[3].payload)

----------------------------------------------------------------------------
(* C17 *)

\* The response the request r receives when it is handled alone and the
\* upstream's reply, if it looks a number up, is reply
Alone(r, reply) ==
  IF Dispatch(r.variant, r.body).k = "await"
    THEN Deliver(r.variant, RouteOf(r), r.body,
                 Return(FinishLookup(r.variant, MessageOf(r.body).id,
                                     Dispatch(r.variant, r.body).query,
                                     Dispatch(r.variant, r.body).phone, reply)))
  ELSE Deliver(r.variant, RouteOf(r), r.body, Dispatch(r.variant, r.body))

\* Every exchange that has ended has the response it would have had alone,
\* and looks up the number of its own request
C17_AsIfAlone ==
  \A c \in Conns :
    /\ conns[c].pc = "done"
         => conns[c].resp = Alone(conns[c].req, conns[c].lookup.reply)
    /\ conns[c].pc = "lookup"
         => conns[c].lookup.phone
              = Dispatch(conns[c].req.variant, conns[c].req.body).phone
    /\ conns[c].pc = "failed"
         => (conns[c].req.variant = "hono" /\ HonoEscapes(conns[c].req.body))

\* A step of one connection, a timer of a stream included, leaves every
\* other connection as it was
C17_OthersUntouched ==
  \A c, d \in Conns :
    (c # d /\ conns'[c] # conns[c]) => conns'[d] = conns[d]

\* C17: requests handled side by side share no state: in every interleaving
\* of their suspension points (the body read, the upstream lookup) each
\* receives the response it would receive alone with the same upstream
\* reply, and the timers of a GET stream act on that stream only.
C17_RequestsIndependent == []C17_AsIfAlone /\ [][C17_OthersUntouched]_vars

\* Two searches for different numbers were suspended on their lookups
\* together; the second to arrive has been answered, for its own number,
\* while the first still waits.
C17_Witness ==
  /\ conns["a"].pc = "lookup"
  /\ conns["b"].pc = "done"
  /\ conns["b"].lookup.reply.t = "http"
  /\ conns["b"].lookup.phone # conns["a"].lookup.phone
  /\ IsResultList(conns["b"].resp.payload)
  /\ conns["b"].resp = Alone(conns["b"].req, conns["b"].lookup.reply)

----------------------------------------------------------------------------
(* C18 *)

\* The member of the reply's body that holds the score, through every level
\* of the nesting; undefined when a level is absent
RawScore(body) == Member(Member(BlockOf(body), "result"), "score")

\* C18: on a 2xx reply checkSpamScore returns a result whichever of the
\* nested add-on members and of the carrier, country and type members are
\* absent, with 0 for a missing score and "Unknown" for a missing
\* descriptive string, in every variant, the SDK-based one included.
C18_DefensiveParse ==
  probe.pc = "settled"
    => /\ probe.outcome.k = "return"
       /\ RawScore(probe.reply.body).t = "undefined"
            => probe.outcome.value.spam_score = Num(0)
       /\ probe.variant \in {"worker", "hono", "sdk"}
            => /\ Member(Member(probe.reply.body, "carrier"), "name").t = "undefined"
                    => probe.outcome.value.carrier = <<"Unknown">>
               /\ probe.reply.body.country_code.t = "undefined"
                    => probe.outcome.value.country_code = <<"Unknown">>
               /\ (probe.reply.body.type.t = "undefined"
                     /\ Member(Member(probe.reply.body, "carrier"), "type").t
                          = "undefined")
                    => probe.outcome.value.phone_type = <<"Unknown">>

----------------------------------------------------------------------------
(* C21 *)

AsciiDigits == {"0", "1", "2", "3", "4", "5", "6", "7", "8", "9"}

\* The text is + followed by n characters, each an ASCII digit.
PlusAndDigits(s, n) ==
  /\ Len(s) = n + 1
  /\ s[1] = "+"
  /\ \A i \in 2..(n + 1) : s[i] \in AsciiDigits

\* The utilities have been applied to a text.
Applied == util.pc \in {"hashing", "done"}

\* C21: isE164 answers true exactly for the texts made of + followed by 10
\* to 15 ASCII digits and nothing else.
C21_ExactFormat ==
  Applied => (util.valid <=> \E n \in 10..15 : PlusAndDigits(util.input, n))

\* + and 15 digits is accepted
C21_Witness ==
  /\ Applied
  /\ util.input = <<"+">> \o DigitRun(15)
  /\ util.valid

----------------------------------------------------------------------------
(* C22 *)

\* The positions at which the masked text shows a character of the input
Revealed(masked) == {i \in 1..Len(masked) : masked[i] # "*"}

\* C22: maskPhoneNumber returns a text as long as its input: all mask
\* characters when the input is shorter than 4, otherwise length - 4 mask
\* characters followed by the last four characters of the input; no more
\* than four characters of the input are shown.
C22_MaskShape ==
  Applied =>
    LET n == Len(util.input) IN
      /\ Len(util.masked) = n
      /\ n < 4 => \A i \in 1..n : util.masked[i] = "*"
      /\ n >= 4 =>
           /\ \A i \in 1..(n - 4) : util.masked[i] = "*"
           /\ \A i \in (n - 3)..n : util.masked[i] = util.input[i]
      /\ Cardinality(Revealed(util.masked)) <= 4

\* +12345678901 is masked as ********8901
C22_Witness ==
  /\ Applied
  /\ util.input = <<"+">> \o DigitRun(11)
  /\ util.masked = Stars(8) \o <<"8", "9", "0", "1">>

----------------------------------------------------------------------------
(* C23 *)

\* The two's complement of a 32-bit quantity
Neg32(h) ==
  IF h.lo = 0 THEN [hi |-> (65536 - h.hi) % 65536, lo |-> 0]
  ELSE [hi |-> 65535 - h.hi, lo |-> 65536 - h.lo]

\* The absolute value of the signed integer the 32 bits stand for
Magnitude(h) == IF h.hi >= 32768 THEN Neg32(h) ELSE h

LowerHexDigits ==
  <<"0", "1", "2", "3", "4", "5", "6", "7", "8", "9", "a", "b", "c", "d", "e", "f">>

\* h divided by 16
Shr4(h) == [hi |-> h.hi \div 16, lo |-> (h.hi % 16) * 4096 + h.lo \div 16]

\* The magnitude h written in base 16, digit by digit
RECURSIVE LowerHex(_)
LowerHex(h) ==
  IF h.hi = 0 /\ h.lo < 16 THEN <<LowerHexDigits[h.lo + 1]>>
  ELSE LowerHex(Shr4(h)) \o <<LowerHexDigits[(h.lo % 16) + 1]>>

First8(s) == [i \in 1..(IF Len(s) > 8 THEN 8 ELSE Len(s)) |-> s[i]]

\* C23: every iteration of the loop of createDocumentId leaves the hash at
\* (hash * 31 + character code) wrapped to 32 bits, from any hash and for
\* any character code, and the id returned is spam_check_ followed by the
\* first eight lowercase hexadecimal digits of the magnitude of the last
\* hash.
C23_ReferenceHash ==
  /\ util.pc \in {"hashing", "done", "stepped"} => util.hash = util.ref
  /\ util.pc = "done" =>
       /\ util.id = <<"spam_check_">> \o First8(LowerHex(Magnitude(util.ref)))
       /\ util.id = hashId(util.hash)

\* +12345678901 has been hashed, through an overflow, to 7745a3eb
C23_Witness ==
  /\ util.pc = "done"
  /\ util.input = <<"+">> \o DigitRun(11)
  /\ util.id = <<"spam_check_", "7", "7", "4", "5", "a", "3", "e", "b">>

----------------------------------------------------------------------------
(* C30 *)

MostNegative == [hi |-> 32768, lo |-> 0]

\* The digits of an id, after its prefix
IdDigits(id) == SubSeq(id, 2, Len(id))

\* C30: the id of every text is spam_check_ followed by 1 to 8 lowercase
\* hexadecimal digits without zero padding (the empty text gives
\* spam_check_0); the magnitude of the hash is at most 2^31, and -2^31 is
\* written 80000000; cutting to eight digits removes none; a hash and its
\* negation give the same id.
C30_IdShape ==
  util.pc = "done" =>
    LET digits == IdDigits(util.id) IN
      /\ util.id[1] = "spam_check_"
      /\ Len(digits) \in 1..8
      /\ \A i \in 1..Len(digits) : \E k \in 1..16 : digits[i] = LowerHexDigits[k]
      /\ Len(digits) > 1 => digits[1] # "0"
      /\ util.input = <<>> => util.id = <<"spam_check_", "0">>
      /\ \/ Abs32(util.hash).hi < 32768
         \/ Abs32(util.hash) = MostNegative
      /\ util.hash = MostNegative =>
           digits = <<"8", "0", "0", "0", "0", "0", "0", "0">>
      /\ digits = ToHex(Abs32(util.hash))
      /\ hashId(Neg32(util.hash)) = util.id

\* GydZG_ hashes to -2^31 and is given the id spam_check_80000000
C30_Witness ==
  /\ util.pc = "done"
  /\ util.input = <<"G", "y", "d", "Z", "G", "_">>
  /\ util.hash = MostNegative
  /\ util.id = <<"spam_check_", "8", "0", "0", "0", "0", "0", "0", "0">>

----------------------------------------------------------------------------
(* C24 *)

\* The fetch handlers that answer the preflight and set the cross-origin
\* headers themselves (index.ts leaves both to the hono library's cors())
OwnHeaders == req.variant \in {"table", "stream", "worker", "sdk"}

\* C24: in part_000, part_001, worker.js and worker-twilio-sdk.js a request
\* with method OPTIONS is answered on every path with status 200 and no body,
\* with no handler dispatched and no outbound call made; and every response,
\* whatever the path and the outcome (result, protocol error, parse error,
\* internal error, health, help text, event stream), carries the worker's
\* cross-origin headers, which admit any origin.
C24_PreflightAndHeaders ==
  (pc = "done" /\ OwnHeaders) =>
    /\ resp.headers = corsHeaders(req.variant)
    /\ <<"Access-Control-Allow-Origin", "*">> \in resp.headers
    /\ req.httpMethod = "OPTIONS" =>
         /\ resp.status = 200
         /\ resp.framing = "empty"
         /\ resp.payload = [shape |-> "none"]
         /\ calls = 0
         /\ lookup = NoLookup

\* A preflight on /mcp has been answered
C24_Witness ==
  /\ pc = "done"
  /\ OwnHeaders
  /\ req.httpMethod = "OPTIONS"
  /\ req.path = "/mcp"
  /\ resp.status = 200
  /\ resp.headers = corsHeaders(req.variant)

----------------------------------------------------------------------------
(* C25 *)

\* The request is a search of part_000 with a string query
IsTableSearch == IsStringSearch /\ req.variant = "table"

\* The text is one or more ASCII digits and nothing else.
DigitsOnly(s) == Len(s) >= 1 /\ \A i \in 1..Len(s) : s[i] \in AsciiDigits

\* The query with +1 before it, unless it begins with +
PlusOne(q) == IF q[1] = "+" THEN q ELSE <<"+", "1">> \o q

\* checkSpamScore was called with the number: the outbound call was made for
\* it, or it was turned away by name at the format check.
CheckedAs(number) ==
  IF isE164(number)
    THEN calls = 1 /\ lookup.phone = number
  ELSE /\ calls = 0
       /\ IsSyntheticError(resp.payload)
       /\ Contains(OnlyText, <<"Invalid phone number format: ">> \o number)

\* C25: in the search of part_000 a query of 10 or more digits and nothing
\* else is looked up as +1 followed by the query, and a query that begins
\* with + as it stands; a run of fewer than 10 digits gets an empty list and
\* no lookup.  The outbound call is made only for a number that passes
\* isE164, and a scored item carries the document id of the number looked
\* up: the digits D and the query +1D get the same id.
C25_Normalisation ==
  (Served /\ IsTableSearch /\ Len(RawQuery) >= 1) =>
    /\ (DigitsOnly(RawQuery) /\ Len(RawQuery) >= 10) =>
         CheckedAs(<<"+", "1">> \o RawQuery)
    /\ RawQuery[1] = "+" => CheckedAs(RawQuery)
    /\ (DigitsOnly(RawQuery) /\ Len(RawQuery) < 10) =>
         /\ resp.payload = EmptyResults("table", req.body.id)
         /\ calls = 0
         /\ lookup = NoLookup
    /\ calls = 1 => isE164(lookup.phone)
    /\ IsScoredItem(resp.payload) =>
         resp.payload.result.items[1].id = createDocumentId(PlusOne(RawQuery))

\* The digits 1234567890 have been looked up as +11234567890 and given the
\* id of that number
C25_Witness ==
  /\ Served
  /\ IsTableSearch
  /\ RawQuery = DigitRun(10)
  /\ lookup.phone = <<"+", "1">> \o DigitRun(10)
  /\ calls = 1
  /\ IsScoredItem(resp.payload)
  /\ resp.payload.result.items[1].id = createDocumentId(<<"+", "1">> \o DigitRun(10))

----------------------------------------------------------------------------
(* C26 *)

\* The interval timer of the stream has been cleared.
Stopped(c) == IsStream(c) /\ ~conns[c].live

\* A tick that runs on a cancelled stream, where its write fails, clears the
\* interval; an interval once cleared stays cleared, and no frame is written
\* after.
C26_FailedTickClears ==
  \A c \in Conns :
    /\ (IsStream(c) /\ conns[c].phase = "cancelled"
          /\ conns'[c].nextTick # conns[c].nextTick) => Stopped(c)'
    /\ Stopped(c) => (Stopped(c)' /\ conns'[c].frames = conns[c].frames)

\* The interval is still live when the lifetime timer fires only if no write
\* has failed; the timer then clears it.
C26_ExpiryClears ==
  \A c \in Conns : (IsStream(c) /\ conns[c].expired) => Stopped(c)

\* C26: the keep-alive interval of a GET /sse stream is stopped on every
\* path: the tick whose write fails clears it and no write is attempted
\* after, the lifetime timer clears it otherwise, and every stream
\* eventually has its interval cleared.
C26_TimerStops ==
  /\ [][C26_FailedTickClears]_vars
  /\ []C26_ExpiryClears
  /\ \A c \in Conns : [](IsStream(c) => <>Stopped(c))

\* A cancelled stream whose interval a failed tick has cleared, before the
\* lifetime timer fired
C26_Witness ==
  \E c \in Conns :
    /\ Stopped(c)
    /\ conns[c].phase = "cancelled"
    /\ ~conns[c].expired

----------------------------------------------------------------------------
(* C27 *)

\* The frames a `data: ` line can be answered with: the parse error, the
\* handler's envelope, or for a search the item of any reply of the upstream
Answers(line) ==
  IF Dispatch("stream", JSONparse(Tail(line))).k = "throw" THEN {ParseErrorFrame}
  ELSE IF Dispatch("stream", JSONparse(Tail(line))).k = "return"
    THEN {formatSSE(Dispatch("stream", JSONparse(Tail(line))).value)}
  ELSE {formatSSE(FinishLookup("stream", MessageOf(JSONparse(Tail(line))).id,
                               Dispatch("stream", JSONparse(Tail(line))).query,
                               Dispatch("stream", JSONparse(Tail(line))).phone, r)) :
          r \in ConnReplies}

\* The part of the text sent that has arrived
Arrived == SubSeq(duplex.sent, 1, Len(duplex.sent) - Len(duplex.input))

\* The `data: ` lines among the lines of a text that a line feed ends
Terminated(text) == DataLines(AllButLast(Split(text)))

\* C27: on the bidirectional stream the frames written after the readiness
\* frame depend on the text of the body and not on the chunks it arrives
\* in: at every moment they answer, one each and in order, the first of the
\* `data: ` lines whose line feed has arrived, and when the body has been
\* read to its end all of them; a line without the prefix and a last
\* `data: ` line without a line feed are answered with nothing.
C27_ChunkingIrrelevant ==
  Len(duplex.out) >= 1 =>
    /\ duplex.out[1] = ReadyFrame
    /\ Len(duplex.out) - 1 <= Len(Terminated(Arrived))
    /\ \A i \in 1..(Len(duplex.out) - 1) : duplex.out[i + 1] \in Answers(FramesSent[i])
    /\ (duplex.pc = "closed" /\ ~duplex.aborted) =>
         Len(duplex.out) - 1 = Len(FramesSent)

\* A comment line, an initialize frame and an initialize frame without its
\* line feed have been read to the end, a chunk having ended inside the
\* first frame: one frame answers them
C27_Witness ==
  /\ duplex.pc = "closed"
  /\ ~duplex.aborted
  /\ duplex.cut
  /\ duplex.sent = <<":note", LF, DataPrefix, InitText, LF, DataPrefix, InitText>>
  /\ duplex.buffer = <<DataPrefix, InitText>>
  /\ duplex.out = <<ReadyFrame, formatSSE(ResultEnvelope("7", InitializeResult))>>

----------------------------------------------------------------------------
(* C29 *)

\* handleRequest has started.
Started == duplex.pc # "none"

\* The writer of the response stream has been closed.
WriterClosed == duplex.pc = "closed"

\* The readiness frame comes first and every later frame is a response:
\* none is written, or handed to the writer, before the readiness frame
\* has been taken.
C29_ReadyBeforeFrames ==
  /\ Len(duplex.out) >= 1 =>
       /\ duplex.out[1] = ReadyFrame
       /\ \A i \in 2..Len(duplex.out) : duplex.out[i].framing = "sse"
  /\ duplex.pending.framing = "sse" => Len(duplex.out) >= 1
  /\ (Started /\ duplex.out = <<>>) =>
       \/ duplex.pending = ReadyFrame
       \/ duplex.exit = "writeerror"

\* Once the writer is closed it stays closed and nothing is written.
C29_NothingAfterClose ==
  WriterClosed => (WriterClosed' /\ duplex'.out = duplex.out)

\* handleRequest never ends with the writer left open, and the writer is
\* closed on the four ways out of it and on no other: the body was read to
\* its end and every line of it handled, there was no body and the
\* readiness frame is all that was written, a read failed, or a write
\* failed on a response the consumer had cancelled.
C29_ClosedOnExit ==
  /\ duplex.pc # "ended"
  /\ WriterClosed <=> duplex.exit \in {"done", "nobody", "readerror", "writeerror"}
  /\ duplex.exit = "done" => (duplex.input = <<>> /\ duplex.lines = <<>>)
  /\ duplex.exit = "nobody" => (duplex.sent = <<>> /\ duplex.out = <<ReadyFrame>>)
  /\ duplex.exit = "writeerror" => duplex.cancelled

\* The request body ends: no read of it stays pending for ever (a request
\* without a body is never read).
BodyEnds == []<>(duplex.pc # "reading")

\* No other await of handleRequest stays pending for ever: the consumer
\* takes or cancels every frame, and every outbound call settles and its
\* body arrives.
AwaitsSettle ==
  /\ []<>(~(duplex.pc = "write" /\ ~duplex.cancelled))
  /\ []<>(duplex.pc \notin {"lookup", "body"})

\* The statement with the one condition it names: whenever the request
\* body ends or is absent the response stream eventually ends, whatever
\* the consumer of the response and the upstream do.
C29_Original ==
  /\ []C29_ReadyBeforeFrames
  /\ []C29_ClosedOnExit
  /\ [][C29_NothingAfterClose]_vars
  /\ BodyEnds => (Started ~> WriterClosed)

\* C29: on the bidirectional stream the writer is closed on every way out of
\* handleRequest (the body ended, there was no body, a read failed, a write
\* failed); the readiness frame is written before any response frame; no
\* frame is written after the close; and whenever the request body ends or
\* is absent the response stream eventually ends, provided that the
\* consumer takes or cancels every frame and every outbound call settles.
C29_AlwaysClosed ==
  /\ []C29_ReadyBeforeFrames
  /\ []C29_ClosedOnExit
  /\ [][C29_NothingAfterClose]_vars
  /\ (BodyEnds /\ AwaitsSettle) => (Started ~> WriterClosed)

\* A read failed after a frame had been answered, and the writer was closed
C29_Witness ==
  /\ WriterClosed
  /\ duplex.exit = "readerror"
  /\ Len(duplex.out) >= 2

----------------------------------------------------------------------------
(* C28 *)

\* C28: an envelope with error code -32700 is sent only for a request body
\* that is not valid JSON: a body that parses and whose handler then throws
\* (a tools/call without params, a query that is no string) is not answered
\* with a parse error.
C28_ParseErrorOnlyForBadJson ==
  (pc = "done" /\ IsPost /\ IsErrorCode(resp.payload, -32700))
    => req.body.t = "invalid"

====
